---- MODULE Spec2Model ----
(***************************************************************************)
(* A model of swagger-mcp's mcpserver package: LoadSwaggerServer, which    *)
(* derives one MCP tool per (path, method) of a Swagger 2.0 / OpenAPI 3.0  *)
(* document, and the handler CreateMCPToolHandler returns, which builds    *)
(* and sends one HTTP request per tool call.                               *)
(*                                                                         *)
(* A Go string is modelled as the sequence of its characters, each a       *)
(* one-character TLA+ string, so that the string functions of the source   *)
(* (TrimSuffix, ReplaceAll, Split, ...) are computed and not assumed.      *)
(* A Go pointer is a sequence of length 0 (nil) or 1.  A Go map is a       *)
(* function; ranging over it visits its keys in a nondeterministic order.  *)
(***************************************************************************)
EXTENDS Integers, Sequences, FiniteSets, TLC

\* --------------------------------------------------------------------------
\* package strings
\* --------------------------------------------------------------------------

HasPrefix(s, prefix) ==
    Len(s) >= Len(prefix) /\ SubSeq(s, 1, Len(prefix)) = prefix

HasSuffix(s, suffix) ==
    Len(s) >= Len(suffix) /\ SubSeq(s, Len(s) - Len(suffix) + 1, Len(s)) = suffix

TrimPrefix(s, prefix) ==
    IF HasPrefix(s, prefix) THEN SubSeq(s, Len(prefix) + 1, Len(s)) ELSE s

TrimSuffix(s, suffix) ==
    IF HasSuffix(s, suffix) THEN SubSeq(s, 1, Len(s) - Len(suffix)) ELSE s

\* strings.Index, 1-based: the position of the first occurrence of substr in
\* s, and 0 (Go: -1) when there is none.
Index(s, substr) ==
    LET hits == {i \in 1..(Len(s) - Len(substr) + 1) :
                    SubSeq(s, i, i + Len(substr) - 1) = substr}
    IN  IF hits = {} THEN 0 ELSE CHOOSE i \in hits : \A j \in hits : i <= j

Contains(s, substr) == Index(s, substr) # 0

\* strings.Replace(s, old, new, 1), old non-empty.
ReplaceFirst(s, old, new) ==
    LET i == Index(s, old)
    IN  IF i = 0 THEN s
        ELSE SubSeq(s, 1, i - 1) \o new \o SubSeq(s, i + Len(old), Len(s))

RECURSIVE ReplaceAll(_, _, _)
\* strings.ReplaceAll(s, old, new), old non-empty.
ReplaceAll(s, old, new) ==
    LET i == Index(s, old)
    IN  IF i = 0 THEN s
        ELSE SubSeq(s, 1, i - 1) \o new
                 \o ReplaceAll(SubSeq(s, i + Len(old), Len(s)), old, new)

IsSpace(c) == c \in {" ", "\t"}

RECURSIVE TrimLeft(_)
TrimLeft(s) ==
    IF s # <<>> /\ IsSpace(Head(s)) THEN TrimLeft(Tail(s)) ELSE s

RECURSIVE TrimRight(_)
TrimRight(s) ==
    IF s # <<>> /\ IsSpace(s[Len(s)]) THEN TrimRight(SubSeq(s, 1, Len(s) - 1)) ELSE s

TrimSpace(s) == TrimRight(TrimLeft(s))

RECURSIVE Split(_, _)
\* strings.Split(s, sep), sep non-empty: Split("", ",") is [""].
Split(s, sep) ==
    LET i == Index(s, sep)
    IN  IF i = 0 THEN <<s>>
        ELSE <<SubSeq(s, 1, i - 1)>> \o Split(SubSeq(s, i + Len(sep), Len(s)), sep)

\* strings.SplitN(s, sep, 2)
SplitN2(s, sep) ==
    LET i == Index(s, sep)
    IN  IF i = 0 THEN <<s>>
        ELSE <<SubSeq(s, 1, i - 1), SubSeq(s, i + Len(sep), Len(s))>>

Lowers == <<"a","b","c","d","e","f","g","h","i","j","k","l","m","n","o","p","q","r","s","t","u","v","w","x","y","z">>
Uppers == <<"A","B","C","D","E","F","G","H","I","J","K","L","M","N","O","P","Q","R","S","T","U","V","W","X","Y","Z">>
Digits == <<"0","1","2","3","4","5","6","7","8","9">>

IsLower(c) == \E i \in 1..Len(Lowers) : Lowers[i] = c
IsUpper(c) == \E i \in 1..Len(Uppers) : Uppers[i] = c
IsDigit(c) == \E i \in 1..Len(Digits) : Digits[i] = c

LowerChar(c) ==
    IF IsUpper(c) THEN Lowers[CHOOSE i \in 1..Len(Uppers) : Uppers[i] = c] ELSE c

UpperChar(c) ==
    IF IsLower(c) THEN Uppers[CHOOSE i \in 1..Len(Lowers) : Lowers[i] = c] ELSE c

ToLower(s) == [i \in 1..Len(s) |-> LowerChar(s[i])]

ToUpper(s) == [i \in 1..Len(s) |-> UpperChar(s[i])]

\* strings.EqualFold on ASCII text.
EqualFold(s, t) == ToLower(s) = ToLower(t)

\* The strings of a sequence of strings, joined by sep.
RECURSIVE Join(_, _)
Join(parts, sep) ==
    IF parts = <<>> THEN <<>>
    ELSE IF Len(parts) = 1 THEN parts[1]
    ELSE parts[1] \o sep \o Join(Tail(parts), sep)

Range(f) == {f[x] : x \in DOMAIN f}

\* --------------------------------------------------------------------------
\* ExtractSchemaName, compileRegexes and the two filters
\* --------------------------------------------------------------------------

ExtractSchemaName(ref, schemaType) ==
    IF ref # <<>>
    THEN LET parts == Split(ref, <<"/">>) IN parts[Len(parts)]
    ELSE schemaType

\* package regexp, for the patterns this model draws: literal characters, "."
\* (any character), a leading caret, a trailing dollar sign, and patterns
\* with an unclosed parenthesis, which regexp.Compile rejects.
RECURSIVE ParenDepthOK(_, _)
ParenDepthOK(pattern, depth) ==
    IF pattern = <<>> THEN depth = 0
    ELSE IF Head(pattern) = "(" THEN ParenDepthOK(Tail(pattern), depth + 1)
    ELSE IF Head(pattern) = ")" THEN depth > 0 /\ ParenDepthOK(Tail(pattern), depth - 1)
    ELSE ParenDepthOK(Tail(pattern), depth)

\* regexp.Compile(pattern) returns no error.
RegexpCompiles(pattern) == ParenDepthOK(pattern, 0)

\* regex.MatchString(s): an unanchored search unless the pattern anchors it.
MatchString(regex, s) ==
    LET atStart == HasPrefix(regex, <<"^">>)
        atEnd   == HasSuffix(regex, <<"$">>)
        body    == TrimSuffix(TrimPrefix(regex, <<"^">>), <<"$">>)
        n       == Len(body)
        MatchesAt(i) ==
            /\ i + n - 1 <= Len(s)
            /\ \A k \in 1..n : body[k] = "." \/ body[k] = s[i + k - 1]
    IN  \E i \in 1..(Len(s) + 1) :
            /\ MatchesAt(i)
            /\ atStart => i = 1
            /\ atEnd => i + n - 1 = Len(s)

RECURSIVE CompileEach(_)
\* The loop of compileRegexes over the comma-separated parts: blank parts and
\* patterns that do not compile are left out.
CompileEach(parts) ==
    IF parts = <<>> THEN <<>>
    ELSE LET path == TrimSpace(Head(parts))
         IN  IF path # <<>> /\ RegexpCompiles(path)
             THEN <<path>> \o CompileEach(Tail(parts))
             ELSE CompileEach(Tail(parts))

compileRegexes(paths) == CompileEach(Split(paths, <<",">>))

shouldIncludePathNoVeto(path, includeRegexes, excludeRegexes) ==
    \/ Len(includeRegexes) = 0 /\ \A i \in 1..Len(excludeRegexes) :
                                       ~MatchString(excludeRegexes[i], path)
    \/ \E i \in 1..Len(includeRegexes) : MatchString(includeRegexes[i], path)

shouldIncludePath(path, includeRegexes, excludeRegexes) ==
    LET include == \/ Len(includeRegexes) = 0
                   \/ \E i \in 1..Len(includeRegexes) :
                          MatchString(includeRegexes[i], path)
    IN  IF ~include THEN FALSE
        ELSE IF \E i \in 1..Len(excludeRegexes) : MatchString(excludeRegexes[i], path)
        THEN FALSE
        ELSE TRUE

shouldIncludeMethod(method, includeMethods, excludeMethods) ==
    LET include == \/ Len(includeMethods) = 0
                   \/ \E i \in 1..Len(includeMethods) :
                          EqualFold(TrimSpace(includeMethods[i]), method)
    IN  IF ~include THEN FALSE
        ELSE IF \E i \in 1..Len(excludeMethods) :
                    EqualFold(TrimSpace(excludeMethods[i]), method)
        THEN FALSE
        ELSE TRUE

\* LoadSwaggerServer's includedMethods / excludedMethods: the empty list when
\* the configured string is blank, its comma-separated parts otherwise.
MethodList(configured) ==
    IF Len(TrimSpace(configured)) > 0 THEN Split(configured, <<",">>) ELSE <<>>

\* --------------------------------------------------------------------------
\* LoadSwaggerServer: the body of its loop over (path, method)
\*
\* models.SwaggerSpec  [Host, BasePath, OpenAPI, Servers, Components, Paths,
\*                      Definitions]
\* models.Endpoint     [Parameters, RequestBody]
\* models.Parameter    [Name, In, Required, Type, Schema]
\* models.SchemaRef    [Type, Ref, Properties, Items]
\* models.ApiConfig    [BaseUrl, IncludePaths, ExcludePaths, IncludeMethods,
\*                      ExcludeMethods, Security, BasicAuth, ApiKeyAuth,
\*                      BearerAuth, SseHeaders, Headers]
\* Parameter.In is compared with four literals only and is a plain string.
\* --------------------------------------------------------------------------

MaxToolNameLen == 40

Overlay(m, over) ==
    [k \in DOMAIN m \cup DOMAIN over |-> IF k \in DOMAIN over THEN over[k] ELSE m[k]]

EmptyMap == [k \in {} |-> <<>>]

\* Every order in which a range loop can visit the keys of a map.
KeyOrders(keys) ==
    {o \in [1..Cardinality(keys) -> keys] : \A i, j \in DOMAIN o : o[i] = o[j] => i = j}

\* baseURL, lines 157-181.
baseURLMixed(swaggerSpec, apiCfg) ==
    IF apiCfg.BaseUrl # <<>> THEN apiCfg.BaseUrl
    ELSE IF swaggerSpec.Host # <<>>
    THEN <<"h","t","t","p","s",":","/","/">> \o swaggerSpec.Host
    ELSE IF Len(swaggerSpec.Servers) > 0
    THEN TrimSuffix(swaggerSpec.Servers[1].URL, <<"/">>)
    ELSE <<"/">>

baseURL(swaggerSpec, apiCfg) ==
    IF apiCfg.BaseUrl = <<>>
    THEN IF swaggerSpec.OpenAPI # <<>>
         THEN IF Len(swaggerSpec.Servers) > 0
              THEN TrimSuffix(swaggerSpec.Servers[1].URL, <<"/">>)
              ELSE <<"/">>
         ELSE LET host == swaggerSpec.Host
                  withScheme ==
                      IF ~HasPrefix(host, <<"h","t","t","p",":","/","/">>) /\ ~HasPrefix(host, <<"h","t","t","p","s",":","/","/">>)
                      THEN <<"h","t","t","p","s",":","/","/">> \o host
                      ELSE host
              IN  IF swaggerSpec.BasePath # <<>>
                  THEN TrimSuffix(withScheme, <<"/">>) \o <<"/">>
                           \o TrimPrefix(swaggerSpec.BasePath, <<"/">>)
                  ELSE withScheme
    ELSE apiCfg.BaseUrl

\* reqURL, line 183.
reqURL(swaggerSpec, apiCfg, path) ==
    TrimSuffix(baseURL(swaggerSpec, apiCfg), <<"/">>) \o <<"/">> \o TrimPrefix(path, <<"/">>)

\* The names appended to reqHeader / reqQueryParam / reqPathParam by the
\* loops of lines 191-242, in the order of details.Parameters.
ParamsIn(details, location) ==
    SelectSeq(details.Parameters, LAMBDA param : param.In = location)

ParamNames(details, location) ==
    LET params == ParamsIn(details, location)
    IN  [i \in 1..Len(params) |-> params[i].Name]

\* Lines 191-242: every header, query and path parameter is declared as an
\* input of the tool, with mcp.Required() only when param.Required.
DeclaredParams(details) ==
    {param.Name : param \in
        {p \in Range(details.Parameters) : p.In \in {"header", "query", "path"}}}

RequiredParams(details) ==
    {param.Name : param \in
        {p \in Range(details.Parameters) :
            p.In \in {"header", "query", "path"} /\ p.Required}}

PropertyTypes(definition) ==
    [propName \in DOMAIN definition.Properties |-> definition.Properties[propName].Type]

RECURSIVE BodyParamFields(_, _, _)
\* Lines 243-257: reqBody after the loop over the parameters with In "body".
\* Only evaluated when no such parameter has a nil Schema.
BodyParamFields(swaggerSpec, params, reqBody) ==
    IF params = <<>> THEN reqBody
    ELSE LET param == Head(params)
             schemaName == ExtractSchemaName(param.Schema[1].Ref, param.Type)
         IN  IF schemaName \in DOMAIN swaggerSpec.Definitions
             THEN BodyParamFields(swaggerSpec, Tail(params),
                      Overlay(reqBody, PropertyTypes(swaggerSpec.Definitions[schemaName])))
             ELSE BodyParamFields(swaggerSpec, Tail(params), reqBody)

\* The schema name of one request-body content entry, line 261.
ContentSchemaName(mediaType) ==
    ExtractSchemaName(mediaType.Schema[1].Ref, mediaType.Schema[1].Type)

RECURSIVE RequestBodyFields(_, _, _, _)
\* Lines 258-289: reqBody after the loop over RequestBody.Content, visited in
\* the given order of content types.
RequestBodyFields(swaggerSpec, content, order, reqBody) ==
    IF order = <<>> THEN reqBody
    ELSE LET schemaName == ContentSchemaName(content[Head(order)])
             schemas    == swaggerSpec.Components[1].Schemas
         IN  IF schemaName \in DOMAIN schemas
             THEN RequestBodyFields(swaggerSpec, content, Tail(order),
                      Overlay(reqBody, PropertyTypes(schemas[schemaName])))
             ELSE RequestBodyFields(swaggerSpec, content, Tail(order), reqBody)

\* Lines 267-279: the inputs declared for the items of an array property:
\* the item properties of the entry of mediaType.Schema.Properties that is
\* named like the schema.
ItemInputs(swaggerSpec, mediaType) ==
    LET schemaName == ContentSchemaName(mediaType)
        schemas    == swaggerSpec.Components[1].Schemas
    IN  IF /\ schemaName \in DOMAIN schemas
           /\ \E propName \in DOMAIN schemas[schemaName].Properties :
                  schemas[schemaName].Properties[propName].Type = <<"a","r","r","a","y">>
           /\ schemaName \in DOMAIN mediaType.Schema[1].Properties
        THEN DOMAIN mediaType.Schema[1].Properties[schemaName].Items[1].Properties
        ELSE {}

\* The iteration dereferences a nil pointer: param.Schema (line 245),
\* mediaType.Schema (line 261), swaggerSpec.Components (line 263) or
\* schemaProp.Items (lines 270-271).
DerefNil(swaggerSpec, details) ==
    \/ \E i \in 1..Len(details.Parameters) :
           details.Parameters[i].In = "body" /\ details.Parameters[i].Schema = <<>>
    \/ /\ details.RequestBody # <<>>
       /\ \E contentType \in DOMAIN details.RequestBody[1].Content :
              LET mediaType == details.RequestBody[1].Content[contentType]
              IN  \/ mediaType.Schema = <<>>
                  \/ swaggerSpec.Components = <<>>
                  \/ LET schemaName == ContentSchemaName(mediaType)
                         schemas    == swaggerSpec.Components[1].Schemas
                     IN  /\ schemaName \in DOMAIN schemas
                         /\ \E propName \in DOMAIN schemas[schemaName].Properties :
                                schemas[schemaName].Properties[propName].Type = <<"a","r","r","a","y">>
                         /\ schemaName \in DOMAIN mediaType.Schema[1].Properties
                         /\ mediaType.Schema[1].Properties[schemaName].Items = <<>>

\* reqBody as passed to CreateMCPToolHandler.
reqBodyOf(swaggerSpec, details, order) ==
    LET fromParams == BodyParamFields(swaggerSpec, ParamsIn(details, "body"), EmptyMap)
    IN  IF details.RequestBody = <<>> THEN fromParams
        ELSE RequestBodyFields(swaggerSpec, details.RequestBody[1].Content, order,
                               fromParams)

\* The content types of the operation's request body (none without one).
ContentTypes(details) ==
    IF details.RequestBody = <<>> THEN {} ELSE DOMAIN details.RequestBody[1].Content

\* The inputs declared with mcp.Required() beside the required parameters:
\* every body field and every item input.
RequiredBodyInputs(swaggerSpec, details, order) ==
    DOMAIN reqBodyOf(swaggerSpec, details, order)
        \cup UNION {ItemInputs(swaggerSpec, details.RequestBody[1].Content[contentType]) :
                        contentType \in ContentTypes(details)}

\* toolName, lines 305-312.
toolNameUntruncated(method, path) ==
    method \o <<"_">> \o ReplaceAll(ReplaceAll(ReplaceAll(path, <<"/">>, <<"_">>), <<"}">>, <<>>),
                                 <<"{">>, <<>>)

toolName(method, path) ==
    LET pathWithoutDot == ReplaceAll(path, <<"/">>, <<"_">>)
        name == method \o <<"_">>
                    \o ReplaceAll(ReplaceAll(pathWithoutDot, <<"}">>, <<>>), <<"{">>, <<>>)
    IN  IF Len(name) >= MaxToolNameLen THEN SubSeq(name, 1, MaxToolNameLen) ELSE name

\* The arguments of one mcpServer.AddTool call, lines 313-318: the tool (its
\* name, its declared inputs and those of them that are required) and the
\* values the handler closes over.  path and method are the loop variables
\* of the iteration that made the call.
Tool(swaggerSpec, apiCfg, path, method, order) ==
    LET details == swaggerSpec.Paths[path][method]
    IN  [name       |-> toolName(method, path),
         properties |-> DeclaredParams(details)
                            \cup RequiredBodyInputs(swaggerSpec, details, order),
         required   |-> RequiredParams(details)
                            \cup RequiredBodyInputs(swaggerSpec, details, order),
         path       |-> path,
         method     |-> method,
         handler    |-> [reqPathParam  |-> ParamNames(details, "path"),
                         reqQueryParam |-> ParamNames(details, "query"),
                         reqURL        |-> reqURL(swaggerSpec, apiCfg, path),
                         reqBody       |-> reqBodyOf(swaggerSpec, details, order),
                         reqMethod     |-> method,
                         reqHeader     |-> ParamNames(details, "header")]]

\* --------------------------------------------------------------------------
\* The documents and configurations the model draws its inputs from
\* --------------------------------------------------------------------------

Parameter(name, location, required, type, schema) ==
    [Name |-> name, In |-> location, Required |-> required, Type |-> type,
     Schema |-> schema]

\* A non-nil *SchemaRef holding a $ref.
SchemaRefTo(ref) ==
    <<[Type |-> <<>>, Ref |-> ref, Properties |-> EmptyMap, Items |-> <<>>]>>

\* A non-nil *SchemaRef with an inline type.
SchemaOfType(type) ==
    <<[Type |-> type, Ref |-> <<>>, Properties |-> EmptyMap, Items |-> <<>>]>>

Endpoint(parameters, requestBody) ==
    [Parameters |-> parameters, RequestBody |-> requestBody]

Definition(properties) ==
    [Properties |-> [propName \in DOMAIN properties |-> [Type |-> properties[propName]]]]

NoEndpointInputs == Endpoint(<<>>, <<>>)

\* GET /users/{id}: a required path parameter, an optional query parameter
\* and a required header.
GetUser ==
    Endpoint(<<Parameter(<<"i","d">>, "path", TRUE, <<"s","t","r","i","n","g">>, <<>>),
               Parameter(<<"l","i","m","i","t">>, "query", FALSE, <<"s","t","r","i","n","g">>, <<>>),
               Parameter(<<"X","-","T">>, "header", TRUE, <<"s","t","r","i","n","g">>, <<>>)>>, <<>>)

\* POST /users: the Swagger 2.0 body parameter, by reference.
PostUser ==
    Endpoint(<<Parameter(<<"b","o","d","y">>, "body", TRUE, <<>>, SchemaRefTo(<<"#","/","d","e","f","i","n","i","t","i","o","n","s","/","U","s","e","r">>))>>,
             <<>>)

\* A body parameter whose schema names no definition of the document.
PostUnknownSchema ==
    Endpoint(<<Parameter(<<"b","o","d","y">>, "body", TRUE, <<>>,
                         SchemaRefTo(<<"#","/","d","e","f","i","n","i","t","i","o","n","s","/","M","i","s","s","i","n","g">>))>>, <<>>)

\* A body parameter that carries no schema object.
PostNoSchema ==
    Endpoint(<<Parameter(<<"b","o","d","y">>, "body", TRUE, <<"s","t","r","i","n","g">>, <<>>)>>, <<>>)

\* An OpenAPI 3.0 request body with one content entry, by reference; the
\* entry's own properties hold the item schema of the array property.
JsonPet ==
    [Schema |-> <<[Type |-> <<>>, Ref |-> <<"#","/","c","o","m","p","o","n","e","n","t","s","/","s","c","h","e","m","a","s","/","P","e","t">>,
                   Properties |-> (<<"P","e","t">> :> [Items |->
                       <<[Properties |-> (<<"t","a","g">> :> [Type |-> <<"s","t","r","i","n","g">>])]>>]),
                   Items |-> <<>>]>>]

PostPet == Endpoint(<<>>, <<[Content |-> (<<"a","p","p","l","i","c","a","t","i","o","n","/","j","s","o","n">> :> JsonPet)]>>)

\* Two content entries that give the same field different types.
PostPetTwoContents ==
    Endpoint(<<>>, <<[Content |-> (<<"a","p","p","l","i","c","a","t","i","o","n","/","j","s","o","n">> :> JsonPet)
                                  @@ (<<"t","e","x","t","/","x","m","l">> :> [Schema |->
                                          SchemaRefTo(<<"#","/","c","o","m","p","o","n","e","n","t","s","/","s","c","h","e","m","a","s","/","P","e","t","X","m","l">>)])]>>)

\* A request-body content entry that carries no schema object.
PostNoContentSchema ==
    Endpoint(<<>>, <<[Content |-> (<<"a","p","p","l","i","c","a","t","i","o","n","/","j","s","o","n">> :> [Schema |-> <<>>])]>>)

UserDefinitions ==
    <<"U","s","e","r">> :> Definition((<<"n","a","m","e">> :> <<"s","t","r","i","n","g">>) @@ (<<"a","g","e">> :> <<"i","n","t","e","g","e","r">>))

PetSchemas ==
    (<<"P","e","t">> :> Definition((<<"n","a","m","e">> :> <<"s","t","r","i","n","g">>) @@ (<<"t","a","g","s">> :> <<"a","r","r","a","y">>)))
        @@ (<<"P","e","t","X","m","l">> :> Definition(<<"n","a","m","e">> :> <<"o","b","j","e","c","t">>))

LongPathIssues == <<"/","o","r","g","a","n","i","z","a","t","i","o","n","s","/","{","o","r","g","I","d","}","/","r","e","p","o","s","i","t","o","r","i","e","s","/","{","r","e","p","o","I","d","}","/","i","s","s","u","e","s">>
LongPathPulls  == <<"/","o","r","g","a","n","i","z","a","t","i","o","n","s","/","{","o","r","g","I","d","}","/","r","e","p","o","s","i","t","o","r","i","e","s","/","{","r","e","p","o","I","d","}","/","p","u","l","l","s">>

\* The paths, schema tables and dialect of a document.
UsersPaths ==
    (<<"/","u","s","e","r","s","/","{","i","d","}">> :> (<<"g","e","t">> :> GetUser))
        @@ (<<"/","u","s","e","r","s">> :> ((<<"p","o","s","t">> :> PostUser) @@ (<<"g","e","t">> :> NoEndpointInputs)))

\* Operations whose names collide: "/a/b" and "/a_b" before any truncation,
\* the two long paths after it.
CollidingPaths ==
    (<<"/","a","/","b">> :> (<<"g","e","t">> :> NoEndpointInputs))
        @@ (<<"/","a","_","b">> :> (<<"g","e","t">> :> NoEndpointInputs))
        @@ (LongPathIssues :> (<<"g","e","t">> :> NoEndpointInputs))
        @@ (LongPathPulls :> (<<"g","e","t">> :> NoEndpointInputs))

PetPaths ==
    (<<"/","p","e","t","s">> :> ((<<"p","o","s","t">> :> PostPetTwoContents) @@ (<<"p","u","t">> :> PostPet)))
        @@ (<<"/","u","s","e","r","s","/","{","i","d","}">> :> (<<"G","E","T">> :> GetUser))

UnknownSchemaPaths ==
    (<<"/","u","s","e","r","s">> :> ((<<"p","o","s","t">> :> PostUnknownSchema) @@ (<<"g","e","t">> :> NoEndpointInputs)))

NoSchemaPaths ==
    (<<"/","u","s","e","r","s">> :> ((<<"p","o","s","t">> :> PostNoSchema) @@ (<<"g","e","t">> :> NoEndpointInputs)))
        @@ (<<"/","a","/","b">> :> (<<"g","e","t">> :> NoEndpointInputs))

NoContentSchemaPaths ==
    (<<"/","p","e","t","s">> :> (<<"p","o","s","t">> :> PostNoContentSchema))
        @@ (<<"/","a","/","b">> :> (<<"g","e","t">> :> NoEndpointInputs))

SwaggerSpec(host, basePath, openAPI, servers, components, paths, definitions) ==
    [Host |-> host, BasePath |-> basePath, OpenAPI |-> openAPI, Servers |-> servers,
     Components |-> components, Paths |-> paths, Definitions |-> definitions]

ServerX == <<[URL |-> <<"h","t","t","p",":","/","/","x","/">>]>>

\* Swagger 2.0 documents (no openapi marker).
Swagger2(host, basePath, servers, paths, definitions) ==
    SwaggerSpec(host, basePath, <<>>, servers, <<>>, paths, definitions)

\* OpenAPI 3.0 documents.
OpenAPI3(host, basePath, servers, components, paths) ==
    SwaggerSpec(host, basePath, <<"3",".","0",".","0">>, servers, components, paths, EmptyMap)

\* The documents that differ in their base-URL fields.
BaseURLDocuments ==
    {Swagger2(<<"a","p","i",".","e","x","a","m","p","l","e",".","c","o","m">>, <<"/","v","1">>, <<>>, UsersPaths, UserDefinitions),
     Swagger2(<<"a","p","i",".","e","x","a","m","p","l","e",".","c","o","m">>, <<"/","v","1">>, ServerX, UsersPaths, UserDefinitions),
     Swagger2(<<"h","t","t","p",":","/","/","h","/">>, <<"v","1">>, <<>>, UsersPaths, UserDefinitions),
     Swagger2(<<"h","t","t","p","s",":","/","/","h">>, <<>>, ServerX, UsersPaths, UserDefinitions),
     OpenAPI3(<<"a","p","i",".","e","x","a","m","p","l","e",".","c","o","m">>, <<"/","v","1">>, ServerX, <<>>, UsersPaths),
     OpenAPI3(<<>>, <<>>, ServerX, <<>>, UsersPaths),
     OpenAPI3(<<"a","p","i",".","e","x","a","m","p","l","e",".","c","o","m">>, <<"/","v","1">>, <<>>, <<>>, UsersPaths)}

\* The documents that differ in their operations and schema tables.
OperationDocuments ==
    {Swagger2(<<"a","p","i",".","e","x","a","m","p","l","e",".","c","o","m">>, <<"/","v","1">>, <<>>, UsersPaths, UserDefinitions),
     Swagger2(<<"a","p","i",".","e","x","a","m","p","l","e",".","c","o","m">>, <<"/","v","1">>, <<>>, CollidingPaths, EmptyMap),
     Swagger2(<<"a","p","i",".","e","x","a","m","p","l","e",".","c","o","m">>, <<"/","v","1">>, <<>>, UnknownSchemaPaths, UserDefinitions),
     Swagger2(<<"a","p","i",".","e","x","a","m","p","l","e",".","c","o","m">>, <<"/","v","1">>, <<>>, UnknownSchemaPaths, EmptyMap),
     Swagger2(<<"a","p","i",".","e","x","a","m","p","l","e",".","c","o","m">>, <<"/","v","1">>, <<>>, NoSchemaPaths, UserDefinitions),
     OpenAPI3(<<>>, <<>>, ServerX, <<[Schemas |-> PetSchemas]>>, PetPaths),
     OpenAPI3(<<>>, <<>>, ServerX, <<[Schemas |-> EmptyMap]>>, PetPaths),
     OpenAPI3(<<>>, <<>>, ServerX, <<>>, PetPaths),
     OpenAPI3(<<>>, <<>>, ServerX, <<[Schemas |-> PetSchemas]>>, NoContentSchemaPaths)}

ApiConfig(baseUrl, includePaths, excludePaths, includeMethods, excludeMethods) ==
    [BaseUrl |-> baseUrl, IncludePaths |-> includePaths, ExcludePaths |-> excludePaths,
     IncludeMethods |-> includeMethods, ExcludeMethods |-> excludeMethods,
     Security |-> <<>>, BasicAuth |-> <<>>, ApiKeyAuth |-> <<>>, BearerAuth |-> <<>>,
     SseHeaders |-> <<>>, Headers |-> <<>>]

NoFilterConfig == ApiConfig(<<>>, <<>>, <<>>, <<>>, <<>>)

\* Include and exclude path lists: empty, well-formed patterns, a malformed
\* pattern beside a well-formed one, and only a malformed pattern.
IncludePathsPool == {<<>>, <<"^","/","u","s","e","r","s">>, <<"(",","," ","/","a">>, <<"(">>}
ExcludePathsPool == {<<>>, <<"i","d","}","$">>, <<"/","a",".","b"," ",","," ","(">>, <<"(">>}
IncludeMethodsPool == {<<>>, <<"G","E","T",","," ","p","o","s","t">>}
ExcludeMethodsPool == {<<>>, <<" ","P","o","s","t">>}

FilterConfigs ==
    {ApiConfig(<<>>, ip, ep, im, em) :
        ip \in IncludePathsPool, ep \in ExcludePathsPool,
        im \in IncludeMethodsPool, em \in ExcludeMethodsPool}

BaseUrlConfigs == {NoFilterConfig, ApiConfig(<<"h","t","t","p",":","/","/","b","/">>, <<>>, <<>>, <<>>, <<>>)}

\* --------------------------------------------------------------------------
\* State
\* --------------------------------------------------------------------------

\* LoadSwaggerServer runs once per process.  Two runs over the same document
\* and configuration are modelled, one after the other, to compare what they
\* register; the handlers that serve calls are those of run 1.
Runs == {1, 2}

\* The tool calls in flight at once.
NumCalls == 2

Calls == 1..NumCalls

VARIABLES
    swaggerSpec,    \* the parsed document handed to CreateServer
    apiCfg,         \* config.ApiCfg
    sseMode,        \* config.SseCfg.SseMode
    todoPaths,      \* per run: the paths the outer range loop has yet to visit
    curPath,        \* per run: the path of the outer loop's current iteration, if any
    todoMethods,    \* per run: the methods the inner range loop has yet to visit
    tools,          \* per run: the AddTool calls made so far, in order
    panicked,       \* per run: the run ended in a nil-pointer panic
    pc,             \* per tool call: where its handler stands
    call,           \* per tool call: the tool called, request.Params.Arguments and
                    \*   the headers of the HTTP request the call arrived in
    ctx,            \* per tool call: the value of its context under sseHeadersKey
    req,            \* per tool call: the handler's *http.Request, once created
    outbound,       \* per tool call: the requests handed to client.Do
    result          \* per tool call: what the handler returned

loadVars == <<todoPaths, curPath, todoMethods, tools, panicked>>

callVars == <<pc, call, ctx, req, outbound, result>>

vars == <<swaggerSpec, apiCfg, sseMode, loadVars, callVars>>

\* LoadSwaggerServer has returned.
LoadDone(r) == todoPaths[r] = {} /\ curPath[r] = <<>> /\ ~panicked[r]

RunEnded(r) == panicked[r] \/ LoadDone(r)

RunStarted(r) == IF r = 1 THEN TRUE ELSE RunEnded(r - 1)

InitLoadVars ==
    /\ todoPaths = [r \in Runs |-> DOMAIN swaggerSpec.Paths]
    /\ curPath = [r \in Runs |-> <<>>]
    /\ todoMethods = [r \in Runs |-> {}]
    /\ tools = [r \in Runs |-> <<>>]
    /\ panicked = [r \in Runs |-> FALSE]

\* --------------------------------------------------------------------------
\* LoadSwaggerServer
\* --------------------------------------------------------------------------

\* One iteration of the outer loop (lines 144-150) up to the inner loop: the
\* range picks any path not yet visited; a filtered path is skipped.
LoadPath(r) ==
    /\ RunStarted(r) /\ ~panicked[r]
    /\ curPath[r] = <<>>
    /\ \E path \in todoPaths[r] :
         /\ todoPaths' = [todoPaths EXCEPT ![r] = @ \ {path}]
         /\ IF /\ shouldIncludePath(path, compileRegexes(apiCfg.IncludePaths),
                                    compileRegexes(apiCfg.ExcludePaths))
               /\ DOMAIN swaggerSpec.Paths[path] # {}
            THEN /\ curPath' = [curPath EXCEPT ![r] = <<path>>]
                 /\ todoMethods' = [todoMethods EXCEPT ![r] = DOMAIN swaggerSpec.Paths[path]]
            ELSE UNCHANGED <<curPath, todoMethods>>
    /\ UNCHANGED <<swaggerSpec, apiCfg, sseMode, tools, panicked, callVars>>

\* One iteration of the inner loop (lines 150-319): the range picks any
\* method of the current path not yet visited; a filtered method is skipped;
\* otherwise the tool is derived and registered, unless the derivation
\* dereferences a nil pointer, which ends the run.
LoadMethod(r) ==
    /\ RunStarted(r) /\ ~panicked[r]
    /\ curPath[r] # <<>>
    /\ \E method \in todoMethods[r] :
         LET path    == curPath[r][1]
             details == swaggerSpec.Paths[path][method]
             left    == todoMethods[r] \ {method}
         IN  /\ todoMethods' = [todoMethods EXCEPT ![r] = left]
             /\ curPath' = [curPath EXCEPT ![r] = IF left = {} THEN <<>> ELSE @]
             /\ IF ~shouldIncludeMethod(method, MethodList(apiCfg.IncludeMethods),
                                        MethodList(apiCfg.ExcludeMethods))
                THEN UNCHANGED <<tools, panicked>>
                ELSE IF DerefNil(swaggerSpec, details)
                THEN /\ panicked' = [panicked EXCEPT ![r] = TRUE]
                     /\ UNCHANGED tools
                ELSE /\ \E order \in KeyOrders(ContentTypes(details)) :
                            tools' = [tools EXCEPT ![r] =
                                Append(@, Tool(swaggerSpec, apiCfg, path, method, order))]
                     /\ UNCHANGED panicked
    /\ UNCHANGED <<swaggerSpec, apiCfg, sseMode, todoPaths, callVars>>

\* --------------------------------------------------------------------------
\* The library calls the handler makes: strconv, encoding/json,
\* encoding/base64, net/url and net/http headers, on printable ASCII text
\* --------------------------------------------------------------------------

\* The printable ASCII characters of this model's alphabet: codes 32 (space)
\* to 95 and codes 97 to 126.
AsciiTo95 ==
    <<" ","!","\"","#","$","%","&","'","(",")","*","+",",","-",".","/">> \o <<"0","1","2","3","4","5","6","7","8","9",":",";","<","=",">","?">>
        \o <<"@","A","B","C","D","E","F","G","H","I","J","K","L","M","N","O">> \o <<"P","Q","R","S","T","U","V","W","X","Y","Z","[","\\","]","^","_">>

AsciiFrom97 == <<"a","b","c","d","e","f","g","h","i","j","k","l","m","n","o","p","q","r","s","t","u","v","w","x","y","z","{","|","}","~">>

CharCode(c) ==
    IF \E i \in 1..Len(AsciiTo95) : AsciiTo95[i] = c
    THEN 31 + CHOOSE i \in 1..Len(AsciiTo95) : AsciiTo95[i] = c
    ELSE 96 + CHOOSE i \in 1..Len(AsciiFrom97) : AsciiFrom97[i] = c

CharOf(code) == IF code <= 95 THEN AsciiTo95[code - 31] ELSE AsciiFrom97[code - 96]

HexDigits == <<"0","1","2","3","4","5","6","7","8","9","A","B","C","D","E","F">>

IsHexDigit(c) == \E i \in 1..Len(HexDigits) : HexDigits[i] = UpperChar(c)

HexValue(c) == (CHOOSE i \in 1..Len(HexDigits) : HexDigits[i] = UpperChar(c)) - 1

\* s < t in the byte order sort.Strings uses.
RECURSIVE StringLess(_, _)
StringLess(s, t) ==
    IF t = <<>> THEN FALSE
    ELSE IF s = <<>> THEN TRUE
    ELSE IF Head(s) # Head(t) THEN CharCode(Head(s)) < CharCode(Head(t))
    ELSE StringLess(Tail(s), Tail(t))

RECURSIVE SortStrings(_)
SortStrings(keys) ==
    IF keys = {} THEN <<>>
    ELSE LET least == CHOOSE k \in keys : \A other \in keys \ {k} : StringLess(k, other)
         IN  <<least>> \o SortStrings(keys \ {least})

AllDigits(s) == s # <<>> /\ \A i \in 1..Len(s) : IsDigit(s[i])

WithoutSign(s) ==
    IF s # <<>> /\ Head(s) \in {"+", "-"} THEN Tail(s) ELSE s

\* strconv.Atoi(s) returns no error (texts too short to overflow).
AtoiOK(s) == AllDigits(WithoutSign(s))

RECURSIVE DigitsValue(_)
DigitsValue(s) ==
    IF s = <<>> THEN 0
    ELSE 10 * DigitsValue(SubSeq(s, 1, Len(s) - 1))
             + (CHOOSE d \in 0..9 : Digits[d + 1] = s[Len(s)])

Atoi(s) ==
    IF s # <<>> /\ Head(s) = "-" THEN 0 - DigitsValue(Tail(s)) ELSE DigitsValue(WithoutSign(s))

\* strconv.ParseFloat(s, 64) returns no error, for decimal texts without an
\* exponent and for the special values: an optional sign before digits with
\* at most one point, or before "inf" / "infinity", or an unsigned "nan".
ParseFloatOK(s) ==
    LET body  == WithoutSign(s)
        point == Index(body, <<".">>)
        whole == IF point = 0 THEN body ELSE SubSeq(body, 1, point - 1)
        frac  == IF point = 0 THEN <<>> ELSE SubSeq(body, point + 1, Len(body))
    IN  \/ /\ whole \o frac # <<>>
           /\ \A i \in 1..Len(whole) : IsDigit(whole[i])
           /\ \A i \in 1..Len(frac) : IsDigit(frac[i])
        \/ ToLower(body) \in {<<"i","n","f">>, <<"i","n","f","i","n","i","t","y">>}
        \/ ToLower(s) = <<"n","a","n">>

\* The parsed float is NaN or an infinity, which json.Marshal rejects.
FloatNotFinite(s) == ToLower(WithoutSign(s)) \in {<<"i","n","f">>, <<"i","n","f","i","n","i","t","y">>, <<"n","a","n">>}

ParseBoolTrue == {<<"1">>, <<"t">>, <<"T">>, <<"T","R","U","E">>, <<"t","r","u","e">>, <<"T","r","u","e">>}
ParseBoolFalse == {<<"0">>, <<"f">>, <<"F">>, <<"F","A","L","S","E">>, <<"f","a","l","s","e">>, <<"F","a","l","s","e">>}

\* strconv.ParseBool(s) returns no error.
ParseBoolOK(s) == s \in ParseBoolTrue \cup ParseBoolFalse

\* A JSON integer: an optional minus and digits without a leading zero.
IsJSONInt(s) ==
    LET digits == IF s # <<>> /\ Head(s) = "-" THEN Tail(s) ELSE s
    IN  AllDigits(digits) /\ (Len(digits) > 1 => Head(digits) # "0")

\* json.Unmarshal(s, &arrayValue) returns no error, for the JSON texts this
\* model draws: null, or a bracketed list of integers.
UnmarshalArrayOK(s) ==
    LET text  == TrimSpace(s)
        inner == TrimSpace(SubSeq(text, 2, Len(text) - 1))
        items == Split(inner, <<",">>)
    IN  \/ text = <<"n","u","l","l">>
        \/ /\ Len(text) >= 2 /\ Head(text) = "[" /\ text[Len(text)] = "]"
           /\ inner = <<>> \/ \A i \in 1..Len(items) : IsJSONInt(TrimSpace(items[i]))

\* One "key":integer member of a JSON object.
IsJSONMember(s) ==
    LET colon == Index(s, <<":">>)
        key   == TrimSpace(SubSeq(s, 1, colon - 1))
    IN  /\ colon # 0
        /\ Len(key) >= 2 /\ Head(key) = "\"" /\ key[Len(key)] = "\""
        /\ \A i \in 2..(Len(key) - 1) : key[i] \notin {"\"", "\\"}
        /\ IsJSONInt(TrimSpace(SubSeq(s, colon + 1, Len(s))))

\* json.Unmarshal(s, &objectValue) returns no error, for the JSON texts this
\* model draws: null, or a braced list of "key":integer members.
UnmarshalObjectOK(s) ==
    LET text    == TrimSpace(s)
        inner   == TrimSpace(SubSeq(text, 2, Len(text) - 1))
        members == Split(inner, <<",">>)
    IN  \/ text = <<"n","u","l","l">>
        \/ /\ Len(text) >= 2 /\ Head(text) = "{" /\ text[Len(text)] = "}"
           /\ inner = <<>> \/ \A i \in 1..Len(members) : IsJSONMember(members[i])

Base64Alphabet ==
    <<"A","B","C","D","E","F","G","H","I","J","K","L","M","N","O","P">> \o <<"Q","R","S","T","U","V","W","X","Y","Z","a","b","c","d","e","f">> \o <<"g","h","i","j","k","l","m","n","o","p","q","r","s","t","u","v">>
        \o <<"w","x","y","z","0","1","2","3","4","5","6","7","8","9","+","/">>

RECURSIVE Base64Encode(_)
\* base64.StdEncoding.EncodeToString
Base64Encode(s) ==
    IF s = <<>> THEN <<>>
    ELSE LET b1 == CharCode(s[1])
             b2 == IF Len(s) >= 2 THEN CharCode(s[2]) ELSE 0
             b3 == IF Len(s) >= 3 THEN CharCode(s[3]) ELSE 0
             n  == b1 * 65536 + b2 * 256 + b3
             c1 == Base64Alphabet[(n \div 262144) + 1]
             c2 == Base64Alphabet[((n \div 4096) % 64) + 1]
             c3 == IF Len(s) >= 2 THEN Base64Alphabet[((n \div 64) % 64) + 1] ELSE "="
             c4 == IF Len(s) >= 3 THEN Base64Alphabet[(n % 64) + 1] ELSE "="
         IN  <<c1, c2, c3, c4>> \o Base64Encode(SubSeq(s, 4, Len(s)))

\* url.QueryEscape
IsUnreserved(c) == IsLower(c) \/ IsUpper(c) \/ IsDigit(c) \/ c \in {"-", "_", ".", "~"}

EscapeChar(c) ==
    IF IsUnreserved(c) THEN <<c>>
    ELSE IF c = " " THEN <<"+">>
    ELSE <<"%", HexDigits[(CharCode(c) \div 16) + 1], HexDigits[(CharCode(c) % 16) + 1]>>

RECURSIVE QueryEscape(_)
QueryEscape(s) ==
    IF s = <<>> THEN <<>> ELSE EscapeChar(Head(s)) \o QueryEscape(Tail(s))

RECURSIVE ValidEscapes(_)
\* Every "%" of s is followed by two hexadecimal digits.
ValidEscapes(s) ==
    IF s = <<>> THEN TRUE
    ELSE IF Head(s) # "%" THEN ValidEscapes(Tail(s))
    ELSE /\ Len(s) >= 3 /\ IsHexDigit(s[2]) /\ IsHexDigit(s[3])
         /\ ValidEscapes(SubSeq(s, 4, Len(s)))

RECURSIVE QueryUnescape(_)
\* url.QueryUnescape of a text with valid escapes of printable characters.
QueryUnescape(s) ==
    IF s = <<>> THEN <<>>
    ELSE IF Head(s) = "+" THEN <<" ">> \o QueryUnescape(Tail(s))
    ELSE IF Head(s) = "%"
    THEN <<CharOf(16 * HexValue(s[2]) + HexValue(s[3]))>> \o QueryUnescape(SubSeq(s, 4, Len(s)))
    ELSE <<Head(s)>> \o QueryUnescape(Tail(s))

\* url.Parse(rawURL) returns no error: its only failure on the texts this
\* model draws is an invalid escape in the part before the query.
NoURL == <<>>

URLPathPart(rawURL) ==
    LET mark == Index(rawURL, <<"?">>)
    IN  IF mark = 0 THEN rawURL ELSE SubSeq(rawURL, 1, mark - 1)

URLQueryPart(rawURL) ==
    LET mark == Index(rawURL, <<"?">>)
    IN  IF mark = 0 THEN <<>> ELSE SubSeq(rawURL, mark + 1, Len(rawURL))

\* url.Parse: a URL is its text up to the first "?" (scheme, host and path
\* as written) and its RawQuery; a non-nil result is a sequence of length 1.
ParseURL(rawURL) ==
    IF ValidEscapes(URLPathPart(rawURL))
    THEN <<[Path |-> URLPathPart(rawURL), RawQuery |-> URLQueryPart(rawURL)]>>
    ELSE NoURL

\* The characters u.EscapedPath() accepts in the text url.Parse was given.
IsValidEncoded(c) ==
    \/ IsUnreserved(c)
    \/ c \in {"$", "&", "+", ",", "/", ":", ";", "=", "@", "!", "'", "(", ")", "*",
              "[", "]", "%"}

RECURSIVE PathUnescape(_)
PathUnescape(s) ==
    IF s = <<>> THEN <<>>
    ELSE IF Head(s) = "%"
    THEN <<CharOf(16 * HexValue(s[2]) + HexValue(s[3]))>> \o PathUnescape(SubSeq(s, 4, Len(s)))
    ELSE <<Head(s)>> \o PathUnescape(Tail(s))

RECURSIVE PathEscape(_)
PathEscape(s) ==
    IF s = <<>> THEN <<>>
    ELSE (IF IsUnreserved(Head(s)) \/ Head(s) \in {"$", "&", "+", ",", "/", ":", ";", "=", "@"}
          THEN <<Head(s)>>
          ELSE <<"%", HexDigits[(CharCode(Head(s)) \div 16) + 1],
                 HexDigits[(CharCode(Head(s)) % 16) + 1]>>) \o PathEscape(Tail(s))

\* u.EscapedPath(): the text as given when it is a valid encoding, else the
\* escaped form of the decoded path.
EscapedPath(u) ==
    IF \A i \in 1..Len(u.Path) : IsValidEncoded(u.Path[i]) THEN u.Path
    ELSE PathEscape(PathUnescape(u.Path))

\* u.String()
URLString(u) ==
    IF u.RawQuery = <<>> THEN EscapedPath(u) ELSE EscapedPath(u) \o <<"?">> \o u.RawQuery

RECURSIVE ParsePairs(_, _)
\* url.ParseQuery over the "&"-separated pairs: url.Values as a map from key
\* to its list of values; a pair with an invalid escape is dropped.
ParsePairs(pairs, values) ==
    IF pairs = <<>> THEN values
    ELSE LET pair == Head(pairs)
             kv   == SplitN2(pair, <<"=">>)
             key  == kv[1]
             val  == IF Len(kv) = 2 THEN kv[2] ELSE <<>>
         IN  IF pair = <<>> \/ ~ValidEscapes(key) \/ ~ValidEscapes(val)
             THEN ParsePairs(Tail(pairs), values)
             ELSE LET k == QueryUnescape(key)
                      v == QueryUnescape(val)
                  IN  ParsePairs(Tail(pairs),
                          Overlay(values, k :> (IF k \in DOMAIN values
                                                THEN Append(values[k], v) ELSE <<v>>)))

\* u.Query()
Query(u) == ParsePairs(Split(u.RawQuery, <<"&">>), EmptyMap)

\* q.Set(name, value)
ValuesSet(q, name, value) == Overlay(q, name :> <<value>>)

RECURSIVE EncodeKeys(_, _)
EncodeKeys(q, keys) ==
    IF keys = <<>> THEN <<>>
    ELSE LET k     == Head(keys)
             pairs == [i \in 1..Len(q[k]) |-> QueryEscape(k) \o <<"=">> \o QueryEscape(q[k][i])]
         IN  pairs \o EncodeKeys(q, Tail(keys))

\* q.Encode(): the pairs sorted by key.
Encode(q) == Join(EncodeKeys(q, SortStrings(DOMAIN q)), <<"&">>)

\* textproto.CanonicalMIMEHeaderKey: a key that is no valid header token is
\* returned as it is.
IsTokenChar(c) ==
    \/ IsLower(c) \/ IsUpper(c) \/ IsDigit(c)
    \/ c \in {"!", "#", "$", "%", "&", "'", "*", "+", "-", ".", "^", "_", "|", "~"}

CanonicalHeaderKey(key) ==
    IF \E i \in 1..Len(key) : ~IsTokenChar(key[i]) THEN key
    ELSE [i \in 1..Len(key) |->
             IF i = 1 \/ key[i - 1] = "-" THEN UpperChar(key[i]) ELSE LowerChar(key[i])]

\* http.Header: a map from canonical key to the list of its values.
HeaderAdd(header, key, value) ==
    LET k == CanonicalHeaderKey(key)
    IN  Overlay(header, k :> (IF k \in DOMAIN header THEN Append(header[k], value)
                              ELSE <<value>>))

HeaderSet(header, key, value) == Overlay(header, CanonicalHeaderKey(key) :> <<value>>)

\* h.Get(key): the first value of the key, "" without one.
HeaderGet(header, key) ==
    LET k == CanonicalHeaderKey(key)
    IN  IF k \in DOMAIN header /\ header[k] # <<>> THEN header[k][1] ELSE <<>>

\* req.AddCookie(c), for names and values that need no sanitizing.
AddCookie(header, name, value) ==
    LET s == name \o <<"=">> \o value
    IN  IF HeaderGet(header, <<"C","o","o","k","i","e">>) # <<>>
        THEN HeaderSet(header, <<"C","o","o","k","i","e">>, HeaderGet(header, <<"C","o","o","k","i","e">>) \o <<";"," ">> \o s)
        ELSE HeaderSet(header, <<"C","o","o","k","i","e">>, s)

\* --------------------------------------------------------------------------
\* setRequestSecurity
\*
\* An *http.Request is [Method, URL, Header, Body]: URL as url.Parse gives
\* it, Header an http.Header, Body the bytes json.Marshal wrote.
\* --------------------------------------------------------------------------

\* One comma-separated part of apiKeyAuth, lines 343-355: nothing for a part
\* that is skipped, else its passAs, name and value.
ApiKeyEntry(rawPart) ==
    LET part     == TrimSpace(rawPart)
        colonIdx == Index(part, <<":">>)
        eqIdx    == Index(part, <<"=">>)
    IN  IF part = <<>> \/ colonIdx = 0 \/ eqIdx = 0 \/ eqIdx < colonIdx + 2
        THEN <<>>
        ELSE <<[passAs |-> ToLower(TrimSpace(SubSeq(part, 1, colonIdx - 1))),
                name   |-> TrimSpace(SubSeq(part, colonIdx + 1, eqIdx - 1)),
                value  |-> TrimSpace(SubSeq(part, eqIdx + 1, Len(part)))]>>

RECURSIVE ApplyApiKeys(_, _)
\* The loop of lines 342-364 over the parts, on the request header, the
\* queryValues map and the cookieValues list.
ApplyApiKeys(parts, acc) ==
    IF parts = <<>> THEN acc
    ELSE LET entry == ApiKeyEntry(Head(parts))
             next ==
                 IF entry = <<>> THEN acc
                 ELSE IF entry[1].passAs = <<"h","e","a","d","e","r">>
                 THEN [acc EXCEPT !.Header = HeaderSet(@, entry[1].name, entry[1].value)]
                 ELSE IF entry[1].passAs = <<"q","u","e","r","y">>
                 THEN [acc EXCEPT !.queryValues = Overlay(@, entry[1].name :> entry[1].value)]
                 ELSE IF entry[1].passAs = <<"c","o","o","k","i","e">>
                 THEN [acc EXCEPT !.cookieValues =
                           Append(@, [Name |-> entry[1].name, Value |-> entry[1].value])]
                 ELSE acc
         IN  ApplyApiKeys(Tail(parts), next)

RECURSIVE AddCookies(_, _)
AddCookies(header, cookieValues) ==
    IF cookieValues = <<>> THEN header
    ELSE AddCookies(AddCookie(header, Head(cookieValues).Name, Head(cookieValues).Value),
                    Tail(cookieValues))

\* Lines 367-378: the query values merged into the request URL.
AddQueryValues(url, queryValues) ==
    IF DOMAIN queryValues = {} THEN url
    ELSE LET parsed == ParseURL(URLString(url))
         IN  IF parsed = NoURL THEN url
             ELSE LET q == Overlay(Query(parsed[1]),
                                   [k \in DOMAIN queryValues |-> <<queryValues[k]>>])
                  IN  [parsed[1] EXCEPT !.RawQuery = Encode(q)]

\* A variant that applies every credential that is configured, whatever the
\* mode.
setRequestSecurityAnyMode(request, security, basicAuth, apiKeyAuth, bearerAuth) ==
    LET withBasic ==
            IF basicAuth # <<>>
            THEN HeaderSet(request.Header, <<"A","u","t","h","o","r","i","z","a","t","i","o","n">>,
                           <<"B","a","s","i","c"," ">> \o Base64Encode(basicAuth))
            ELSE request.Header
        withBearer ==
            IF bearerAuth # <<>>
            THEN HeaderSet(withBasic, <<"A","u","t","h","o","r","i","z","a","t","i","o","n">>, <<"B","e","a","r","e","r"," ">> \o bearerAuth)
            ELSE withBasic
        keys == ApplyApiKeys(Split(apiKeyAuth, <<",">>),
                             [Header |-> withBearer, queryValues |-> EmptyMap,
                              cookieValues |-> <<>>])
    IN  [request EXCEPT !.URL = AddQueryValues(request.URL, keys.queryValues),
                        !.Header = AddCookies(keys.Header, keys.cookieValues)]

setRequestSecurity(request, security, basicAuth, apiKeyAuth, bearerAuth) ==
    LET securityType == TrimSpace(security)
        withBasic ==
            IF securityType = <<"b","a","s","i","c">> /\ basicAuth # <<>>
            THEN HeaderSet(request.Header, <<"A","u","t","h","o","r","i","z","a","t","i","o","n">>,
                           <<"B","a","s","i","c"," ">> \o Base64Encode(basicAuth))
            ELSE request.Header
        withBearer ==
            IF securityType = <<"b","e","a","r","e","r">> /\ bearerAuth # <<>>
            THEN HeaderSet(withBasic, <<"A","u","t","h","o","r","i","z","a","t","i","o","n">>, <<"B","e","a","r","e","r"," ">> \o bearerAuth)
            ELSE withBasic
        none == [Header |-> withBearer, queryValues |-> EmptyMap, cookieValues |-> <<>>]
        keys ==
            IF securityType = <<"a","p","i","K","e","y">> /\ apiKeyAuth # <<>>
            THEN ApplyApiKeys(Split(apiKeyAuth, <<",">>), none)
            ELSE none
    IN  [request EXCEPT !.URL = AddQueryValues(request.URL, keys.queryValues),
                        !.Header = AddCookies(keys.Header, keys.cookieValues)]

\* --------------------------------------------------------------------------
\* The handler CreateMCPToolHandler returns
\*
\* An argument value is [IsString, Value]: a string, or the JSON text of a
\* value of another type, for which the type assertion .(string) fails as it
\* does for a missing key.
\* --------------------------------------------------------------------------

\* request.Params.Arguments[name].(string): the string, or nothing when !ok.
StringArgument(arguments, name) ==
    IF name \in DOMAIN arguments /\ arguments[name].IsString
    THEN <<arguments[name].Value>>
    ELSE <<>>

\* mcp.NewToolResultError(text), nil and mcp.NewToolResultText(text), nil: the
\* result and the error the handler returns beside it (always nil).
NewToolResultError(text) == [IsError |-> TRUE, Text |-> text, Err |-> <<>>]

NewToolResultText(text) == [IsError |-> FALSE, Text |-> text, Err |-> <<>>]

\* What the handler has after a step: a result to return, or a request.
Returned(toolResult) == [result |-> <<toolResult>>, request |-> <<>>]

Continued(request) == [result |-> <<>>, request |-> <<request>>]

\* The position in names of the first argument that is missing or no string,
\* 0 when all are strings.
FirstNotString(names, arguments) ==
    LET bad == {i \in 1..Len(names) : StringArgument(arguments, names[i]) = <<>>}
    IN  IF bad = {} THEN 0 ELSE CHOOSE i \in bad : \A j \in bad : i <= j

RECURSIVE SubstitutePathParams(_, _, _)
\* Lines 396-402, for arguments that are all strings.
SubstitutePathParams(currentReqURL, names, arguments) ==
    IF names = <<>> THEN currentReqURL
    ELSE SubstitutePathParams(
             ReplaceFirst(currentReqURL, <<"{">> \o Head(names) \o <<"}">>,
                          StringArgument(arguments, Head(names))[1]),
             Tail(names), arguments)

RECURSIVE SetQueryParams(_, _, _)
\* Lines 411-417, for arguments that are all strings.
SetQueryParams(q, names, arguments) ==
    IF names = <<>> THEN q
    ELSE SetQueryParams(ValuesSet(q, Head(names), StringArgument(arguments, Head(names))[1]),
                        Tail(names), arguments)

\* Lines 424-470 for one body field: the error text the loop returns with at
\* this field, or nothing when the field's value is coerced.
BodyFieldError(paramName, paramType, arguments) ==
    LET arg      == StringArgument(arguments, paramName)
        paramStr == arg[1]
        Invalid(expected) ==
            <<<<"[","E","r","r","o","r","]"," ","i","n","v","a","l","i","d"," ","t","y","p","e"," ","f","o","r"," ","p","a","r","a","m","e","t","e","r"," ">> \o paramName \o <<","," ","e","x","p","e","c","t","e","d"," ">>
                  \o expected>>
    IN  IF arg = <<>> THEN <<<<"[","E","r","r","o","r","]"," ","m","i","s","s","i","n","g"," ","B","o","d","y"," ","P","a","r","a","m","e","t","e","r",":"," ">> \o paramName>>
        ELSE IF paramType = <<"s","t","r","i","n","g">> THEN <<>>
        ELSE IF paramType \in {<<"i","n","t">>, <<"i","n","t","e","g","e","r">>}
        THEN IF AtoiOK(paramStr) THEN <<>> ELSE Invalid(<<"i","n","t">>)
        ELSE IF paramType = <<"f","l","o","a","t">>
        THEN IF ParseFloatOK(paramStr) THEN <<>> ELSE Invalid(<<"f","l","o","a","t">>)
        ELSE IF paramType \in {<<"b","o","o","l">>, <<"b","o","o","l","e","a","n">>}
        THEN IF ParseBoolOK(paramStr) THEN <<>> ELSE Invalid(<<"b","o","o","l">>)
        ELSE IF paramType = <<"a","r","r","a","y">>
        THEN IF UnmarshalArrayOK(paramStr) THEN <<>> ELSE Invalid(<<"a","r","r","a","y">>)
        ELSE IF paramType = <<"o","b","j","e","c","t">>
        THEN IF UnmarshalObjectOK(paramStr) THEN <<>> ELSE Invalid(<<"o","b","j","e","c","t">>)
        ELSE <<<<"[","E","r","r","o","r","]"," ","u","n","s","u","p","p","o","r","t","e","d"," ","p","a","r","a","m","e","t","e","r"," ","t","y","p","e",":"," ">> \o paramType \o <<" ","f","o","r"," ">>
                   \o paramName>>

RECURSIVE NatText(_)
\* The decimal text of a natural number.
NatText(n) ==
    IF n < 10 THEN <<Digits[n + 1]>> ELSE NatText(n \div 10) \o <<Digits[(n % 10) + 1]>>

\* json.Marshal of an int.
IntText(n) == IF n < 0 THEN <<"-">> \o NatText(0 - n) ELSE NatText(n)

RECURSIVE TrimLeftZeros(_)
TrimLeftZeros(s) ==
    IF Len(s) > 1 /\ Head(s) = "0" THEN TrimLeftZeros(Tail(s)) ELSE s

RECURSIVE TrimRightZeros(_)
TrimRightZeros(s) ==
    IF s # <<>> /\ s[Len(s)] = "0" THEN TrimRightZeros(SubSeq(s, 1, Len(s) - 1)) ELSE s

\* json.Marshal of the float64 ParseFloat gives for a finite decimal text
\* short enough to be exact and to be written without an exponent.
FloatText(s) ==
    LET body  == WithoutSign(s)
        point == Index(body, <<".">>)
        whole == TrimLeftZeros(IF point = 0 THEN body ELSE SubSeq(body, 1, point - 1))
        frac  == TrimRightZeros(IF point = 0 THEN <<>> ELSE SubSeq(body, point + 1, Len(body)))
        sign  == IF Head(s) = "-" THEN <<"-">> ELSE <<>>
    IN  sign \o (IF whole = <<>> THEN <<"0">> ELSE whole)
             \o (IF frac = <<>> THEN <<>> ELSE <<".">> \o frac)

RECURSIVE JSONEscape(_)
JSONEscape(s) ==
    IF s = <<>> THEN <<>>
    ELSE (IF Head(s) \in {"\"", "\\"} THEN <<"\\", Head(s)>>
          ELSE IF Head(s) = "<" THEN <<"\\","u","0","0","3","c">>
          ELSE IF Head(s) = ">" THEN <<"\\","u","0","0","3","e">>
          ELSE IF Head(s) = "&" THEN <<"\\","u","0","0","2","6">>
          ELSE <<Head(s)>>) \o JSONEscape(Tail(s))

\* json.Marshal of a string.
StringText(s) == <<"\"">> \o JSONEscape(s) \o <<"\"">>

\* json.Marshal of the value json.Unmarshal gave for a list of integers or
\* for an object of at most one integer member: the text without its blanks.
CompactText(s) == SelectSeq(s, LAMBDA c : ~IsSpace(c))

\* json.Marshal of reqBodyData[paramName] for a field without error.
BodyFieldValue(paramType, paramStr) ==
    IF paramType = <<"s","t","r","i","n","g">> THEN StringText(paramStr)
    ELSE IF paramType \in {<<"i","n","t">>, <<"i","n","t","e","g","e","r">>} THEN IntText(Atoi(paramStr))
    ELSE IF paramType = <<"f","l","o","a","t">> THEN FloatText(paramStr)
    ELSE IF paramType \in {<<"b","o","o","l">>, <<"b","o","o","l","e","a","n">>}
    THEN IF paramStr \in ParseBoolTrue THEN <<"t","r","u","e">> ELSE <<"f","a","l","s","e">>
    ELSE CompactText(paramStr)

RECURSIVE MarshalMembers(_, _)
MarshalMembers(reqBodyData, keys) ==
    IF keys = <<>> THEN <<>>
    ELSE <<StringText(Head(keys)) \o <<":">> \o reqBodyData[Head(keys)]>>
             \o MarshalMembers(reqBodyData, Tail(keys))

\* json.Marshal(reqBodyData): the members sorted by key.
Marshal(reqBodyData) ==
    <<"{">> \o Join(MarshalMembers(reqBodyData, SortStrings(DOMAIN reqBodyData)), <<",">>) \o <<"}">>

\* http.NewRequest accepts the method: "" (taken as GET) or a token.
ValidMethod(method) == \A i \in 1..Len(method) : IsTokenChar(method[i])

RECURSIVE AddHeaderParams(_, _, _)
\* Lines 484-490, for arguments that are all strings.
AddHeaderParams(header, names, arguments) ==
    IF names = <<>> THEN header
    ELSE AddHeaderParams(HeaderAdd(header, Head(names),
                                   StringArgument(arguments, Head(names))[1]),
                         Tail(names), arguments)

\* Lines 473-491: the body is marshalled, the request is created, and the
\* declared headers and the content type are put on it.
CreateRequest(h, arguments, currentReqURL) ==
    LET reqBodyData ==
            [paramName \in DOMAIN h.reqBody |->
                BodyFieldValue(h.reqBody[paramName],
                               StringArgument(arguments, paramName)[1])]
        url == ParseURL(currentReqURL)
        badHeader == FirstNotString(h.reqHeader, arguments)
    IN  IF \E paramName \in DOMAIN h.reqBody :
               h.reqBody[paramName] = <<"f","l","o","a","t">>
                   /\ FloatNotFinite(StringArgument(arguments, paramName)[1])
        THEN Returned(NewToolResultError(
                 <<"[","E","r","r","o","r","]"," ","f","a","i","l","e","d"," ","t","o"," ","m","a","r","s","h","a","l"," ","r","e","q","u","e","s","t"," ","b","o","d","y",":"," ","u","n","s","u","p","p","o","r","t","e","d"," ","v","a","l","u","e">>))
        ELSE IF url = NoURL \/ ~ValidMethod(ToUpper(h.reqMethod))
        THEN Returned(NewToolResultError(
                 <<"[","E","r","r","o","r","]"," ","f","a","i","l","e","d"," ","t","o"," ","c","r","e","a","t","e"," ","H","T","T","P"," ","r","e","q","u","e","s","t",":"," ","i","n","v","a","l","i","d"," ","r","e","q","u","e","s","t">>))
        ELSE IF badHeader # 0
        THEN Returned(NewToolResultError(
                 <<"[","E","r","r","o","r","]"," ","m","i","s","s","i","n","g"," ","o","r"," ","i","n","v","a","l","i","d"," ","H","e","a","d","e","r",":"," ">> \o h.reqHeader[badHeader]))
        ELSE Continued(
                 [Method |-> IF h.reqMethod = <<>> THEN <<"G","E","T">> ELSE ToUpper(h.reqMethod),
                  URL    |-> url[1],
                  Header |-> HeaderSet(AddHeaderParams(EmptyMap, h.reqHeader, arguments),
                                       <<"C","o","n","t","e","n","t","-","T","y","p","e">>, <<"a","p","p","l","i","c","a","t","i","o","n","/","j","s","o","n">>),
                  Body   |-> Marshal(reqBodyData)])

\* Lines 422-491, from the URL with its path and query parameters in place:
\* every way the loop over the reqBody map can end.  The loop returns at the
\* first field in error it visits, in an order that is not fixed.
AssembleBody(h, arguments, currentReqURL) ==
    LET inError == {paramName \in DOMAIN h.reqBody :
                        BodyFieldError(paramName, h.reqBody[paramName], arguments) # <<>>}
    IN  IF inError # {}
        THEN {Returned(NewToolResultError(
                  BodyFieldError(paramName, h.reqBody[paramName], arguments)[1])) :
                  paramName \in inError}
        ELSE {CreateRequest(h, arguments, currentReqURL)}

\* Lines 404-420: the query parameters merged into the URL.
AssembleQuery(h, arguments, currentReqURL) ==
    LET u        == ParseURL(currentReqURL)
        badQuery == FirstNotString(h.reqQueryParam, arguments)
    IN  IF Len(h.reqQueryParam) = 0 THEN AssembleBody(h, arguments, currentReqURL)
        ELSE IF u = NoURL
        THEN {Returned(NewToolResultError(<<"[","E","r","r","o","r","]"," ","f","a","i","l","e","d"," ","t","o"," ","p","a","r","s","e"," ","U","R","L",":"," ","i","n","v","a","l","i","d"," ","U","R","L"," ","e","s","c","a","p","e">>))}
        ELSE IF badQuery # 0
        THEN {Returned(NewToolResultError(
                  <<"[","E","r","r","o","r","]"," ","m","i","s","s","i","n","g"," ","o","r"," ","i","n","v","a","l","i","d"," ","Q","u","e","r","y"," ","P","a","r","a","m","e","t","e","r",":"," ">>
                      \o h.reqQueryParam[badQuery]))}
        ELSE AssembleBody(h, arguments,
                 URLString([u[1] EXCEPT !.RawQuery =
                     Encode(SetQueryParams(Query(u[1]), h.reqQueryParam, arguments))]))

\* A variant that creates the request from the URL template whatever the
\* arguments are.
BuildRequestOutcomesPartial(h, arguments) ==
    {Continued([Method |-> ToUpper(h.reqMethod),
                URL    |-> [Path |-> h.reqURL, RawQuery |-> <<>>],
                Header |-> HeaderSet(EmptyMap, <<"C","o","n","t","e","n","t","-","T","y","p","e">>, <<"a","p","p","l","i","c","a","t","i","o","n","/","j","s","o","n">>),
                Body   |-> <<"{","}">>])}

\* Lines 395-491: every way the handler can come to hold its request or
\* return before that.
BuildRequestOutcomes(h, arguments) ==
    LET badPath == FirstNotString(h.reqPathParam, arguments)
    IN  IF badPath # 0
        THEN {Returned(NewToolResultError(
                  <<"[","E","r","r","o","r","]"," ","m","i","s","s","i","n","g"," ","o","r"," ","i","n","v","a","l","i","d"," ","P","a","t","h"," ","P","a","r","a","m","e","t","e","r",":"," ">>
                      \o h.reqPathParam[badPath]))}
        ELSE AssembleQuery(h, arguments,
                           SubstitutePathParams(h.reqURL, h.reqPathParam, arguments))

RECURSIVE AddStaticHeaders(_, _)
\* Lines 497-508 over the comma-separated pairs of apiCfg.Headers.
AddStaticHeaders(header, pairs) ==
    IF pairs = <<>> THEN header
    ELSE LET pair == TrimSpace(Head(pairs))
             kv   == SplitN2(pair, <<"=">>)
         IN  IF pair # <<>> /\ Len(kv) = 2 /\ TrimSpace(kv[1]) # <<>>
             THEN AddStaticHeaders(HeaderAdd(header, TrimSpace(kv[1]), TrimSpace(kv[2])),
                                   Tail(pairs))
             ELSE AddStaticHeaders(header, Tail(pairs))

RECURSIVE SetForwardedHeaders(_, _, _)
\* Lines 514-516, the keys visited in the given order.
SetForwardedHeaders(header, sseHeaders, order) ==
    IF order = <<>> THEN header
    ELSE SetForwardedHeaders(HeaderSet(header, Head(order), sseHeaders[Head(order)]),
                             sseHeaders, Tail(order))

\* The function given to server.WithSSEContextFunc, lines 105-115: the
\* context value for a call that arrived in an HTTP request with these
\* headers; nothing when no header is configured to be forwarded.
SSEContext(requestHeader) ==
    IF Len(apiCfg.SseHeaders) = 0 THEN <<>>
    ELSE <<[key \in Range(Split(apiCfg.SseHeaders, <<",">>)) |-> HeaderGet(requestHeader, key)]>>

\* --------------------------------------------------------------------------
\* The tool calls the model draws
\* --------------------------------------------------------------------------

Str(text) == [IsString |-> TRUE, Value |-> text]

\* A JSON number where a string is expected.
NotAString == [IsString |-> FALSE, Value |-> <<"4","2">>]

\* A value the handler accepts for the input: for a body field a text its
\* type tag coerces, for a parameter any text.
GoodValue(h, name) ==
    IF name \notin DOMAIN h.reqBody THEN <<"4","2">>
    ELSE IF h.reqBody[name] \in {<<"i","n","t">>, <<"i","n","t","e","g","e","r">>} THEN <<"+","0","4","2">>
    ELSE IF h.reqBody[name] = <<"f","l","o","a","t">> THEN <<"0","1",".","5","0">>
    ELSE IF h.reqBody[name] \in {<<"b","o","o","l">>, <<"b","o","o","l","e","a","n">>} THEN <<"T">>
    ELSE IF h.reqBody[name] = <<"a","r","r","a","y">> THEN <<" ","[","1",","," ","2","]">>
    ELSE IF h.reqBody[name] = <<"o","b","j","e","c","t">> THEN <<"{","\"","a","\"",":"," ","1","}">>
    ELSE <<"a"," ","\"","b","\"">>

\* Other texts for the input: for a body field texts its type tag rejects
\* (and, for a float, one that parses to no finite number), for a query
\* parameter a text that needs escaping, for a path parameter a text that is
\* no valid escape.
OtherValues(h, name) ==
    IF name \in DOMAIN h.reqBody
    THEN IF h.reqBody[name] \in {<<"i","n","t">>, <<"i","n","t","e","g","e","r">>} THEN {<<"4","x">>}
         ELSE IF h.reqBody[name] = <<"f","l","o","a","t">> THEN {<<"1","e">>, <<"N","a","N">>}
         ELSE IF h.reqBody[name] \in {<<"b","o","o","l">>, <<"b","o","o","l","e","a","n">>} THEN {<<"y","e","s">>}
         ELSE IF h.reqBody[name] = <<"a","r","r","a","y">> THEN {<<"{","}">>}
         ELSE IF h.reqBody[name] = <<"o","b","j","e","c","t">> THEN {<<"[","1","]">>}
         ELSE {}
    ELSE IF name \in Range(h.reqQueryParam) THEN {<<"a"," ","b","&","c">>}
    ELSE IF name \in Range(h.reqPathParam) THEN {<<"%","z","z">>}
    ELSE {}

\* The arguments the handler reads.
Demanded(h) ==
    Range(h.reqPathParam) \cup Range(h.reqQueryParam) \cup Range(h.reqHeader)
        \cup DOMAIN h.reqBody

\* request.Params.Arguments for a call of the tool: a good value for every
\* declared input; the same for the required inputs only and for the
\* arguments the handler reads only; and the first with one argument left
\* out, not a string, or of another text.
ArgumentMaps(tool) ==
    LET h        == tool.handler
        Good(ns) == [name \in ns |-> Str(GoodValue(h, name))]
        complete == Good(tool.properties \cup Demanded(h))
    IN  {complete, Good(tool.required), Good(Demanded(h))}
            \cup {[name \in DOMAIN complete \ {n} |-> complete[name]] : n \in Demanded(h)}
            \cup {[complete EXCEPT ![n] = NotAString] : n \in Demanded(h)}
            \cup UNION {{[complete EXCEPT ![n] = Str(v)] : v \in OtherValues(h, n)} :
                            n \in Demanded(h)}

\* The headers of the HTTP request call i arrives in: its own trace
\* identifier, given twice by every second call, and its own credentials
\* and X-T header, which every second call lacks.
InboundHeader(i) ==
    IF i % 2 = 1
    THEN HeaderSet(HeaderSet(HeaderSet(EmptyMap, <<"A","u","t","h","o","r","i","z","a","t","i","o","n">>,
                                       <<"B","e","a","r","e","r"," ","i","n">> \o NatText(i)),
                             <<"X","-","T","r","a","c","e">>, <<"t">> \o NatText(i)),
                   <<"x","-","t">>, <<"i","n">> \o NatText(i))
    ELSE HeaderAdd(HeaderSet(EmptyMap, <<"x","-","t","r","a","c","e">>, <<"t">> \o NatText(i)), <<"X","-","T","r","a","c","e">>, <<"a","g","a","i","n">>)

\* The bodies a response is read to.
ResponseBodies == {<<"{","\"","i","d","\"",":","4","2","}">>, <<>>}

NoCall == <<>>

InitCallVars ==
    /\ pc = [i \in Calls |-> "idle"]
    /\ call = [i \in Calls |-> NoCall]
    /\ ctx = [i \in Calls |-> <<>>]
    /\ req = [i \in Calls |-> <<>>]
    /\ outbound = [i \in Calls |-> <<>>]
    /\ result = [i \in Calls |-> <<>>]

\* mcpServer.AddTool stores the tool under its name: the positions of the
\* registrations of run r that no later registration has replaced.
Registered(r) ==
    {t \in 1..Len(tools[r]) :
        \A later \in (t + 1)..Len(tools[r]) : tools[r][later].name # tools[r][t].name}

\* The tool call i invokes and the values its handler closes over.
ToolOf(i) == tools[1][call[i][1].tool]

HandlerOf(i) == ToolOf(i).handler

\* A variant in which every handler reads the context of the first call.
ctxValueOfFirst(i) == ctx[1]

\* ctx.Value(sseHeadersKey) in the handler of call i, line 511.
ctxValue(i) == ctx[i]

\* --------------------------------------------------------------------------
\* Tool calls.  Calls are numbered in the order they arrive; each runs its
\* handler in a goroutine of its own, so the steps of different calls
\* interleave.
\* --------------------------------------------------------------------------

\* A tools/call request arrives.  Over SSE the context function of lines
\* 105-115 has run on the HTTP request that carried it; over stdio there is
\* no HTTP request and the context holds no value.
Receive(i) ==
    /\ pc[i] = "idle"
    /\ \A r \in Runs : RunEnded(r)
    /\ LoadDone(1)
    /\ \A j \in 1..(i - 1) : pc[j] # "idle"
    /\ \E t \in Registered(1) :
       \E arguments \in ArgumentMaps(tools[1][t]) :
       \E header \in {IF sseMode THEN InboundHeader(i) ELSE EmptyMap} :
           /\ call' = [call EXCEPT ![i] =
                  <<[tool |-> t, arguments |-> arguments, header |-> header]>>]
           /\ ctx' = [ctx EXCEPT ![i] = IF sseMode THEN SSEContext(header) ELSE <<>>]
    /\ pc' = [pc EXCEPT ![i] = "received"]
    /\ UNCHANGED <<swaggerSpec, apiCfg, sseMode, loadVars, req, outbound, result>>

\* Lines 395-491: the handler returns an error result, or holds the request
\* with its URL, body, declared headers and content type.
BuildRequest(i) ==
    /\ pc[i] = "received"
    /\ \E outcome \in BuildRequestOutcomes(HandlerOf(i), call[i][1].arguments) :
           IF outcome.request = <<>>
           THEN /\ result' = [result EXCEPT ![i] = outcome.result]
                /\ pc' = [pc EXCEPT ![i] = "done"]
                /\ UNCHANGED req
           ELSE /\ req' = [req EXCEPT ![i] = outcome.request]
                /\ pc' = [pc EXCEPT ![i] = "created"]
                /\ UNCHANGED result
    /\ UNCHANGED <<swaggerSpec, apiCfg, sseMode, loadVars, call, ctx, outbound>>

\* Line 494.
Secure(i) ==
    /\ pc[i] = "created"
    /\ req' = [req EXCEPT ![i] =
           <<setRequestSecurity(req[i][1], apiCfg.Security, apiCfg.BasicAuth,
                                apiCfg.ApiKeyAuth, apiCfg.BearerAuth)>>]
    /\ pc' = [pc EXCEPT ![i] = "secured"]
    /\ UNCHANGED <<swaggerSpec, apiCfg, sseMode, loadVars, call, ctx, outbound, result>>

\* A variant that sets the headers of the context before it adds the
\* configured headers.
AddHeadersForwardedFirst(i) ==
    /\ pc[i] = "secured"
    /\ LET sseHeaders == IF ctxValue(i) = <<>> THEN EmptyMap ELSE ctxValue(i)[1]
       IN  \E order \in KeyOrders(DOMAIN sseHeaders) :
               LET forwarded == SetForwardedHeaders(req[i][1].Header, sseHeaders, order)
               IN  req' = [req EXCEPT ![i] =
                       <<[req[i][1] EXCEPT !.Header =
                              IF apiCfg.Headers # <<>>
                              THEN AddStaticHeaders(forwarded, Split(apiCfg.Headers, <<",">>))
                              ELSE forwarded]>>]
    /\ pc' = [pc EXCEPT ![i] = "ready"]
    /\ UNCHANGED <<swaggerSpec, apiCfg, sseMode, loadVars, call, ctx, outbound, result>>

\* Lines 497-518: the configured headers are added, then the headers of the
\* context are set, its keys visited in any order.
AddHeaders(i) ==
    /\ pc[i] = "secured"
    /\ LET static ==
               IF apiCfg.Headers # <<>>
               THEN AddStaticHeaders(req[i][1].Header, Split(apiCfg.Headers, <<",">>))
               ELSE req[i][1].Header
           sseHeaders == IF ctxValue(i) = <<>> THEN EmptyMap ELSE ctxValue(i)[1]
       IN  \E order \in KeyOrders(DOMAIN sseHeaders) :
               req' = [req EXCEPT ![i] =
                   <<[req[i][1] EXCEPT !.Header =
                          SetForwardedHeaders(static, sseHeaders, order)]>>]
    /\ pc' = [pc EXCEPT ![i] = "ready"]
    /\ UNCHANGED <<swaggerSpec, apiCfg, sseMode, loadVars, call, ctx, outbound, result>>

\* net/http sends no request that has a header whose name is empty or holds
\* a character that is no token character.
ValidHeaderFieldNames(header) ==
    \A name \in DOMAIN header : name # <<>> /\ \A k \in 1..Len(name) : IsTokenChar(name[k])

\* What client.Do and io.ReadAll can come to, lines 520-533: the transport
\* fails (always, for a URL without http or https scheme and for a header
\* name that is not valid), reading the response fails, or the body is read.
DispatchOutcomes(request) ==
    {NewToolResultError(<<"[","E","r","r","o","r","]"," ","f","a","i","l","e","d"," ","t","o"," ","m","a","k","e"," ","H","T","T","P"," ","r","e","q","u","e","s","t",":"," ","t","r","a","n","s","p","o","r","t"," ","e","r","r","o","r">>)}
        \cup (IF (HasPrefix(request.URL.Path, <<"h","t","t","p",":","/","/">>)
                         \/ HasPrefix(request.URL.Path, <<"h","t","t","p","s",":","/","/">>))
                     /\ ValidHeaderFieldNames(request.Header)
              THEN {NewToolResultError(<<"[","E","r","r","o","r","]"," ","f","a","i","l","e","d"," ","t","o"," ","r","e","a","d"," ","H","T","T","P"," ","R","e","s","p","o","n","s","e",":"," ","r","e","a","d"," ","e","r","r","o","r">>)}
                       \cup {NewToolResultText(body) : body \in ResponseBodies}
              ELSE {})

\* A variant that calls client.Do once more when the transport failed.
DispatchWithRetry(i) ==
    /\ pc[i] = "ready"
    /\ outbound' = [outbound EXCEPT ![i] = Append(@, req[i][1])]
    /\ \E outcome \in DispatchOutcomes(req[i][1]) :
           IF outcome.IsError /\ Len(outbound[i]) = 0
           THEN UNCHANGED <<result, pc>>
           ELSE /\ result' = [result EXCEPT ![i] = <<outcome>>]
                /\ pc' = [pc EXCEPT ![i] = "done"]
    /\ UNCHANGED <<swaggerSpec, apiCfg, sseMode, loadVars, call, ctx, req>>

\* Lines 520-533: the request is handed to client.Do once and the handler
\* returns.
Dispatch(i) ==
    /\ pc[i] = "ready"
    /\ outbound' = [outbound EXCEPT ![i] = Append(@, req[i][1])]
    /\ \E outcome \in DispatchOutcomes(req[i][1]) :
           result' = [result EXCEPT ![i] = <<outcome>>]
    /\ pc' = [pc EXCEPT ![i] = "done"]
    /\ UNCHANGED <<swaggerSpec, apiCfg, sseMode, loadVars, call, ctx, req>>

\* --------------------------------------------------------------------------
\* Specifications
\* --------------------------------------------------------------------------

\* LoadSwaggerServer alone, over the documents and filter configurations.
InitLoad ==
    /\ \/ swaggerSpec \in BaseURLDocuments /\ apiCfg \in BaseUrlConfigs
       \/ swaggerSpec \in OperationDocuments /\ apiCfg \in FilterConfigs
    /\ sseMode = FALSE
    /\ InitLoadVars
    /\ InitCallVars

NextLoad == \E r \in Runs : LoadPath(r) \/ LoadMethod(r)

SpecLoad == InitLoad /\ [][NextLoad]_vars

\* The documents tools are called of: every type tag the handler knows, one
\* it does not know, an array property with item inputs, and a document
\* whose base URL has no scheme.
UserPaths ==
    (<<"/","u","s","e","r","s","/","{","i","d","}">> :> (<<"g","e","t">> :> GetUser)) @@ (<<"/","u","s","e","r","s">> :> (<<"p","o","s","t">> :> PostUser))

JsonThing == [Schema |-> SchemaRefTo(<<"#","/","c","o","m","p","o","n","e","n","t","s","/","s","c","h","e","m","a","s","/","T","h","i","n","g">>)]

PutThing == Endpoint(<<>>, <<[Content |-> (<<"a","p","p","l","i","c","a","t","i","o","n","/","j","s","o","n">> :> JsonThing)]>>)

ThingSchemas ==
    PetSchemas @@ (<<"T","h","i","n","g">> :> Definition((<<"r","a","t","i","o">> :> <<"f","l","o","a","t">>) @@ (<<"o","n">> :> <<"b","o","o","l">>)
                                              @@ (<<"m","e","t","a">> :> <<"o","b","j","e","c","t">>)))

ThingPaths ==
    (<<"/","p","e","t","s">> :> (<<"p","o","s","t">> :> PostPet)) @@ (<<"/","t","h","i","n","g","s">> :> (<<"p","u","t">> :> PutThing))

PostMisc ==
    Endpoint(<<Parameter(<<"b","o","d","y">>, "body", TRUE, <<>>, SchemaRefTo(<<"#","/","d","e","f","i","n","i","t","i","o","n","s","/","M","i","s","c">>))>>,
             <<>>)

PostFlags ==
    Endpoint(<<Parameter(<<"b","o","d","y">>, "body", TRUE, <<"F","l","a","g","s">>, SchemaOfType(<<"o","b","j","e","c","t">>))>>, <<>>)

MiscDefinitions ==
    (<<"M","i","s","c">> :> Definition((<<"n">> :> <<"i","n","t">>) @@ (<<"k","i","n","d">> :> <<"n","u","m","b","e","r">>)))
        @@ (<<"F","l","a","g","s">> :> Definition(<<"o","k">> :> <<"b","o","o","l","e","a","n">>))

MiscPaths ==
    (<<"/","m","i","s","c">> :> (<<"p","o","s","t">> :> PostMisc)) @@ (<<"/","f","l","a","g","s">> :> (<<"p","o","s","t">> :> PostFlags))

CallDocuments ==
    {Swagger2(<<"a","p","i",".","e","x","a","m","p","l","e",".","c","o","m">>, <<"/","v","1">>, <<>>, UserPaths, UserDefinitions),
     OpenAPI3(<<>>, <<>>, ServerX, <<[Schemas |-> ThingSchemas]>>, ThingPaths),
     SwaggerSpec(<<>>, <<>>, <<"3",".","0",".","0">>, <<>>, <<>>, MiscPaths, MiscDefinitions)}

CallConfig(security, basicAuth, apiKeyAuth, bearerAuth, sseHeaders, headers) ==
    [NoFilterConfig EXCEPT !.Security = security, !.BasicAuth = basicAuth,
                           !.ApiKeyAuth = apiKeyAuth, !.BearerAuth = bearerAuth,
                           !.SseHeaders = sseHeaders, !.Headers = headers]

ForwardingConfig ==
    CallConfig(<<"b","e","a","r","e","r">>, <<>>, <<>>, <<"t","o","k">>, <<"A","u","t","h","o","r","i","z","a","t","i","o","n",",","x","-","t","r","a","c","e",","," ","X","-","E","n","v">>,
               <<"X","-","E","n","v","=","p","r","o","d",","," ","b","a","d",","," ","=","v",",","X","-","T","r","a","c","e"," ","="," ","s","t","a","t","i","c">>)

ApiKeyConfig ==
    CallConfig(<<"a","p","i","K","e","y">>, <<"u",":","p">>, <<"q","u","e","r","y",":","t","o","k","e","n","=","a","b","c","1","2","3">>, <<"t","o","k">>, <<>>, <<"X","-","E","n","v","=","p","r","o","d">>)

\* Forwarded names that a declared header argument (X-T), the security
\* injection (X-Api-Key) and the configured headers (X-Trace, X-T) set too,
\* beside names that only the injection (Cookie) or only the configuration
\* (X-Env) sets.
RelayConfig ==
    CallConfig(<<"a","p","i","K","e","y">>, <<>>, <<"h","e","a","d","e","r",":","X","-","A","p","i","-","K","e","y","=","k","1",",","c","o","o","k","i","e",":","s","i","d","=","c","1">>, <<>>,
               <<"x","-","t","r","a","c","e",",","X","-","T",",","X","-","A","p","i","-","K","e","y">>, <<"X","-","T","r","a","c","e","=","s","t","a","t","i","c",",","X","-","T","=","f","i","x","e","d",",","X","-","E","n","v","=","p","r","o","d",",","x","-","e","n","v","=","2">>)

\* config.ApiCfg and config.SseCfg.SseMode.
CallSettings ==
    {<<NoFilterConfig, FALSE>>, <<ForwardingConfig, TRUE>>, <<ForwardingConfig, FALSE>>,
     <<ApiKeyConfig, TRUE>>, <<RelayConfig, TRUE>>}

\* Tool calls over stdio and over SSE.
Init ==
    /\ swaggerSpec \in CallDocuments
    /\ \E setting \in CallSettings : apiCfg = setting[1] /\ sseMode = setting[2]
    /\ InitLoadVars
    /\ InitCallVars

Next ==
    \/ \E r \in Runs : LoadPath(r) \/ LoadMethod(r)
    \/ \E i \in Calls :
           Receive(i) \/ BuildRequest(i) \/ Secure(i) \/ AddHeaders(i) \/ Dispatch(i)

Spec == Init /\ [][Next]_vars

\* Tool calls under every security mode and credential setting.
GetByIdAndQ ==
    Endpoint(<<Parameter(<<"i","d">>, "path", TRUE, <<"s","t","r","i","n","g">>, <<>>),
               Parameter(<<"q">>, "query", TRUE, <<"s","t","r","i","n","g">>, <<>>)>>, <<>>)

SecurityDocument ==
    Swagger2(<<"a","p","i",".","e","x","a","m","p","l","e",".","c","o","m">>, <<>>, <<>>, (<<"/","u","s","e","r","s","/","{","i","d","}">> :> (<<"g","e","t">> :> GetByIdAndQ)),
             EmptyMap)

SecurityModes == {<<>>, <<"b","a","s","i","c">>, <<"b","e","a","r","e","r">>, <<"a","p","i","K","e","y">>, <<" ","a","p","i","K","e","y"," ">>, <<"o","a","u","t","h","2">>}

\* basicAuth, apiKeyAuth and bearerAuth.
Credentials ==
    {<< <<>>, <<>>, <<>> >>,
     <<<<"u",":","p">>, <<"q","u","e","r","y",":","t","o","k","e","n","=","a","b","c","1","2","3">>, <<"t","o","k">>>>,
     <<<<"u",":","p">>, <<"h","e","a","d","e","r",":","X","-","A","p","i","-","K","e","y","=","k","1",","," ","c","o","o","k","i","e",":","s","i","d","=","c","1",",","c","o","o","k","i","e",":","t","=","2">>, <<"t","o","k">>>>,
     << <<>>, <<"b","o","g","u","s",","," ","Q","u","e","r","y"," ",":"," ","q"," ","="," ","a"," ","b"," ",",","h","e","a","d","e","r",":","=","v",","," ",":","x","=","1">>, <<>> >>}

SecurityConfigs ==
    {CallConfig(mode, creds[1], creds[2], creds[3], <<>>, <<>>) :
        mode \in SecurityModes, creds \in Credentials}

InitSec ==
    /\ swaggerSpec = SecurityDocument
    /\ apiCfg \in SecurityConfigs
    /\ sseMode = FALSE
    /\ InitLoadVars
    /\ InitCallVars

SpecSec == InitSec /\ [][Next]_vars

\* --------------------------------------------------------------------------
\* Properties of LoadSwaggerServer, checked under SpecLoad
\* --------------------------------------------------------------------------

\* The operations of the document: its (path, method) pairs.
Operations ==
    UNION {{<<path, method>> : method \in DOMAIN swaggerSpec.Paths[path]} :
               path \in DOMAIN swaggerSpec.Paths}

\* The positions of run r's AddTool calls made for the operation.
CallsFor(r, path, method) ==
    {i \in 1..Len(tools[r]) : tools[r][i].path = path /\ tools[r][i].method = method}

PassesFilters(path, method) ==
    /\ shouldIncludePath(path, compileRegexes(apiCfg.IncludePaths),
                         compileRegexes(apiCfg.ExcludePaths))
    /\ shouldIncludeMethod(method, MethodList(apiCfg.IncludeMethods),
                           MethodList(apiCfg.ExcludeMethods))

\* method, an underscore, and the path with its braces left out and each
\* slash turned into an underscore.
MethodAndPath(method, path) ==
    LET kept == SelectSeq(path, LAMBDA c : c \notin {"{", "}"})
    IN  method \o <<"_">> \o [i \in 1..Len(kept) |-> IF kept[i] = "/" THEN "_" ELSE kept[i]]

\* C3: once LoadSwaggerServer has returned, AddTool was called exactly once
\* for every operation that passes the path filter and the method filter and
\* never for another one; every registered name is the first 40 characters
\* (or all, if fewer) of method + "_" + path with "/" turned into "_" and
\* the braces removed, so it depends on method and path only.
C3_OneToolPerRetainedOperation ==
    \A r \in Runs :
        /\ LoadDone(r) =>
               \A op \in Operations :
                   Cardinality(CallsFor(r, op[1], op[2])) =
                       IF PassesFilters(op[1], op[2]) THEN 1 ELSE 0
        /\ \A i \in 1..Len(tools[r]) :
               LET tool == tools[r][i]
                   full == MethodAndPath(tool.method, tool.path)
               IN  /\ <<tool.path, tool.method>> \in Operations
                   /\ Len(tool.name) <= 40
                   /\ Len(tool.name) = IF Len(full) < 40 THEN Len(full) ELSE 40
                   /\ tool.name = SubSeq(full, 1, Len(tool.name))

\* A finished load that registered a tool with a truncated name and skipped
\* an operation the filters reject.
C3_Witness ==
    /\ LoadDone(1)
    /\ \E i \in 1..Len(tools[1]) :
           /\ Len(MethodAndPath(tools[1][i].method, tools[1][i].path)) > 40
           /\ Len(tools[1][i].name) = 40
    /\ \E op \in Operations : ~PassesFilters(op[1], op[2])

\* C4: two derivations from the same document and configuration register
\* equal tools (name, URL template, parameter name lists, body type map,
\* method, declared inputs) in the same order.
C4_TwoDerivationsAgree ==
    (LoadDone(1) /\ LoadDone(2)) => tools[1] = tools[2]

\* Whether some pattern of the list matches the path.
SomePatternMatches(patterns, path) ==
    \E i \in 1..Len(patterns) : MatchString(patterns[i], path)

\* Whether some entry of the list is the method, letter case and surrounding
\* blanks of the entry aside.
SomeEntryIsMethod(entries, method) ==
    \E i \in 1..Len(entries) : ToLower(TrimSpace(entries[i])) = ToLower(method)

\* C5: an operation is registered iff its path and its method are each
\* included by the same rule: the include list is empty or has a matching
\* entry, and no exclude entry matches.  Paths match by regular expression,
\* methods by case-insensitive equality.
C5_FilterRule ==
    \A r \in Runs :
        LoadDone(r) =>
            LET includePaths   == compileRegexes(apiCfg.IncludePaths)
                excludePaths   == compileRegexes(apiCfg.ExcludePaths)
                includeMethods == MethodList(apiCfg.IncludeMethods)
                excludeMethods == MethodList(apiCfg.ExcludeMethods)
                PathIncluded(path) ==
                    /\ includePaths = <<>> \/ SomePatternMatches(includePaths, path)
                    /\ ~SomePatternMatches(excludePaths, path)
                MethodIncluded(method) ==
                    /\ includeMethods = <<>> \/ SomeEntryIsMethod(includeMethods, method)
                    /\ ~SomeEntryIsMethod(excludeMethods, method)
            IN  \A op \in Operations :
                    (CallsFor(r, op[1], op[2]) # {}) <=>
                        (PathIncluded(op[1]) /\ MethodIncluded(op[2]))

\* A finished load under non-empty include lists where an exclude pattern
\* vetoes a path an include pattern matches, an exclude entry vetoes a method
\* an include entry names, and a method is registered through an include
\* entry that differs from it in letter case.
C5_Witness ==
    /\ LoadDone(1)
    /\ compileRegexes(apiCfg.IncludePaths) # <<>>
    /\ \E op \in Operations :
           /\ SomePatternMatches(compileRegexes(apiCfg.IncludePaths), op[1])
           /\ SomePatternMatches(compileRegexes(apiCfg.ExcludePaths), op[1])
           /\ CallsFor(1, op[1], op[2]) = {}
    /\ \E op \in Operations :
           /\ SomeEntryIsMethod(MethodList(apiCfg.IncludeMethods), op[2])
           /\ SomeEntryIsMethod(MethodList(apiCfg.ExcludeMethods), op[2])
           /\ CallsFor(1, op[1], op[2]) = {}
    /\ \E op \in Operations :
           /\ CallsFor(1, op[1], op[2]) # {}
           /\ \A i \in 1..Len(MethodList(apiCfg.IncludeMethods)) :
                  TrimSpace(MethodList(apiCfg.IncludeMethods)[i]) # op[2]
           /\ MethodList(apiCfg.IncludeMethods) # <<>>

\* s without its last character when that is a slash.
WithoutTrailingSlash(s) ==
    IF s # <<>> /\ s[Len(s)] = "/" THEN SubSeq(s, 1, Len(s) - 1) ELSE s

\* s without its first character when that is a slash.
WithoutLeadingSlash(s) ==
    IF s # <<>> /\ s[1] = "/" THEN SubSeq(s, 2, Len(s)) ELSE s

HasHttpScheme(s) ==
    \/ Len(s) >= 7 /\ SubSeq(s, 1, 7) = <<"h","t","t","p",":","/","/">>
    \/ Len(s) >= 8 /\ SubSeq(s, 1, 8) = <<"h","t","t","p","s",":","/","/">>

\* C7: every registered URL template is base + "/" + path, base without its
\* trailing slash and path without its leading slash (placeholders kept),
\* where base comes from exactly one source: the configured base URL when
\* non-empty; else, for a document with the openapi marker, the first server
\* URL without its trailing slash, or "/" without servers; else host,
\* prefixed with https:// unless it has a scheme, joined to basePath by one
\* slash.
C7_BaseURLRule ==
    \A r \in Runs : \A i \in 1..Len(tools[r]) :
        LET url  == tools[r][i].handler.reqURL
            rest == <<"/">> \o WithoutLeadingSlash(tools[r][i].path)
            host == IF HasHttpScheme(swaggerSpec.Host) THEN swaggerSpec.Host
                    ELSE <<"h","t","t","p","s",":","/","/">> \o swaggerSpec.Host
        IN  /\ apiCfg.BaseUrl # <<>> =>
                   url = WithoutTrailingSlash(apiCfg.BaseUrl) \o rest
            /\ (apiCfg.BaseUrl = <<>> /\ swaggerSpec.OpenAPI # <<>>
                    /\ swaggerSpec.Servers # <<>>) =>
                   url = WithoutTrailingSlash(WithoutTrailingSlash(
                             swaggerSpec.Servers[1].URL)) \o rest
            /\ (apiCfg.BaseUrl = <<>> /\ swaggerSpec.OpenAPI # <<>>
                    /\ swaggerSpec.Servers = <<>>) =>
                   url = rest
            /\ (apiCfg.BaseUrl = <<>> /\ swaggerSpec.OpenAPI = <<>>
                    /\ swaggerSpec.BasePath = <<>>) =>
                   url = WithoutTrailingSlash(host) \o rest
            /\ (apiCfg.BaseUrl = <<>> /\ swaggerSpec.OpenAPI = <<>>
                    /\ swaggerSpec.BasePath # <<>>) =>
                   url = WithoutTrailingSlash(
                             WithoutTrailingSlash(host) \o <<"/">>
                                 \o WithoutLeadingSlash(swaggerSpec.BasePath)) \o rest
            /\ (apiCfg.BaseUrl = <<>> /\ swaggerSpec.OpenAPI = <<>>
                    /\ swaggerSpec.Host = <<"a","p","i",".","e","x","a","m","p","l","e",".","c","o","m">>
                    /\ swaggerSpec.BasePath = <<"/","v","1">>) =>
                   url = <<"h","t","t","p","s",":","/","/","a","p","i",".","e","x","a","m","p","l","e",".","c","o","m","/","v","1">> \o rest
            /\ (apiCfg.BaseUrl = <<>> /\ swaggerSpec.OpenAPI # <<>>
                    /\ swaggerSpec.Servers = <<[URL |-> <<"h","t","t","p",":","/","/","x","/">>]>>) =>
                   url = <<"h","t","t","p",":","/","/","x">> \o rest

\* A document that carries both dialects' base-URL fields, those of the
\* two examples, has registered the tool of /users/{id} under the
\* URL its own dialect gives.
C7_Witness ==
    /\ apiCfg.BaseUrl = <<>>
    /\ swaggerSpec.Host = <<"a","p","i",".","e","x","a","m","p","l","e",".","c","o","m">> /\ swaggerSpec.BasePath = <<"/","v","1">>
    /\ swaggerSpec.Servers = <<[URL |-> <<"h","t","t","p",":","/","/","x","/">>]>>
    /\ \E i \in 1..Len(tools[1]) :
           \/ /\ swaggerSpec.OpenAPI = <<>>
              /\ tools[1][i].handler.reqURL = <<"h","t","t","p","s",":","/","/","a","p","i",".","e","x","a","m","p","l","e",".","c","o","m","/","v","1","/","u","s","e","r","s","/","{","i","d","}">>
           \/ /\ swaggerSpec.OpenAPI # <<>>
              /\ tools[1][i].handler.reqURL = <<"h","t","t","p",":","/","/","x","/","u","s","e","r","s","/","{","i","d","}">>

\* The operation's body schema cannot be resolved: a body parameter or a
\* request-body content entry without a schema object or naming a schema
\* that the table lacks, or a request body while the document has no
\* components table.
BodySchemaUnresolved(details) ==
    \/ \E i \in 1..Len(details.Parameters) :
           LET param == details.Parameters[i]
           IN  /\ param.In = "body"
               /\ \/ param.Schema = <<>>
                  \/ ExtractSchemaName(param.Schema[1].Ref, param.Type)
                         \notin DOMAIN swaggerSpec.Definitions
    \/ /\ details.RequestBody # <<>>
       /\ \E contentType \in DOMAIN details.RequestBody[1].Content :
              LET mediaType == details.RequestBody[1].Content[contentType]
              IN  \/ mediaType.Schema = <<>>
                  \/ swaggerSpec.Components = <<>>
                  \/ ContentSchemaName(mediaType)
                         \notin DOMAIN swaggerSpec.Components[1].Schemas

\* C9: LoadSwaggerServer never aborts on a structural gap: no run panics,
\* and a finished run has registered, for every retained operation whose
\* body schema cannot be resolved, a tool with an empty body field set.
C9_LoadNeverAborts ==
    \A r \in Runs :
        /\ ~panicked[r]
        /\ LoadDone(r) =>
               \A op \in Operations :
                   (PassesFilters(op[1], op[2])
                        /\ BodySchemaUnresolved(swaggerSpec.Paths[op[1]][op[2]])) =>
                       \E i \in CallsFor(r, op[1], op[2]) :
                           tools[r][i].handler.reqBody = EmptyMap

\* The patterns a configured list names: its comma-separated parts, blanks
\* around them aside, the empty parts left out.
ConfiguredPatterns(paths) ==
    LET parts == Split(paths, <<",">>)
    IN  SelectSeq([k \in 1..Len(parts) |-> TrimSpace(parts[k])], LAMBDA p : p # <<>>)

WellFormedPatterns(paths) == SelectSeq(ConfiguredPatterns(paths), RegexpCompiles)

\* C12: a malformed pattern of the include or exclude path list never counts
\* as a match.  When the configured include list names a pattern, an
\* operation is registered only if a well-formed pattern of the list matches
\* its path, also when every pattern of the list is malformed; and an
\* operation whose path and method are included is registered unless a
\* well-formed exclude pattern matches its path.
C12_MalformedNeverMatches ==
    \A r \in Runs :
        LoadDone(r) =>
            \A op \in Operations :
                /\ (CallsFor(r, op[1], op[2]) # {}
                        /\ ConfiguredPatterns(apiCfg.IncludePaths) # <<>>) =>
                       SomePatternMatches(WellFormedPatterns(apiCfg.IncludePaths), op[1])
                /\ (/\ \/ ConfiguredPatterns(apiCfg.IncludePaths) = <<>>
                       \/ SomePatternMatches(WellFormedPatterns(apiCfg.IncludePaths), op[1])
                    /\ shouldIncludeMethod(op[2], MethodList(apiCfg.IncludeMethods),
                                           MethodList(apiCfg.ExcludeMethods))
                    /\ ~SomePatternMatches(WellFormedPatterns(apiCfg.ExcludePaths), op[1])) =>
                       CallsFor(r, op[1], op[2]) # {}

\* --------------------------------------------------------------------------
\* Properties of the tool handler, checked under Spec and SpecSec
\* --------------------------------------------------------------------------

\* The text coerces to the type the tag names; no text does for a tag the
\* handler does not know.
Coerces(tag, text) ==
    \/ tag = <<"s","t","r","i","n","g">>
    \/ tag \in {<<"i","n","t">>, <<"i","n","t","e","g","e","r">>} /\ AtoiOK(text)
    \/ tag = <<"f","l","o","a","t">> /\ ParseFloatOK(text)
    \/ tag \in {<<"b","o","o","l">>, <<"b","o","o","l","e","a","n">>} /\ ParseBoolOK(text)
    \/ tag = <<"a","r","r","a","y">> /\ UnmarshalArrayOK(text)
    \/ tag = <<"o","b","j","e","c","t">> /\ UnmarshalObjectOK(text)

\* A declared path, query, header or body argument is missing or not a
\* string, or a body value does not coerce to its type tag.
Deficient(h, arguments) ==
    \/ \E name \in Range(h.reqPathParam) \cup Range(h.reqQueryParam)
                       \cup Range(h.reqHeader) \cup DOMAIN h.reqBody :
           name \notin DOMAIN arguments \/ ~arguments[name].IsString
    \/ \E name \in DOMAIN h.reqBody \cap DOMAIN arguments :
           ~Coerces(h.reqBody[name], arguments[name].Value)

\* C1: a call whose arguments lack a declared path, query, header or body
\* argument or give it as a non-string, or give a body value that does not
\* coerce to its type tag or has an unknown tag, never comes to hold a
\* request or to call client.Do, and what it returns is a text starting with
\* "[Error]".
C1_DeficientArgumentsRejected ==
    \A i \in Calls :
        (pc[i] # "idle" /\ Deficient(HandlerOf(i), call[i][1].arguments)) =>
            /\ pc[i] \in {"received", "done"}
            /\ req[i] = <<>>
            /\ outbound[i] = <<>>
            /\ pc[i] = "done" =>
                   /\ result[i] # <<>>
                   /\ HasPrefix(result[i][1].Text, <<"[","E","r","r","o","r","]">>)

\* A finished call of a tool with the one path parameter id whose arguments
\* lack id: the missing-parameter text was returned and nothing was sent.
C1_Witness ==
    \E i \in Calls :
        /\ pc[i] = "done"
        /\ HandlerOf(i).reqPathParam = <<<<"i","d">>>>
        /\ <<"i","d">> \notin DOMAIN call[i][1].arguments
        /\ result[i][1].Text = <<"[","E","r","r","o","r","]"," ","m","i","s","s","i","n","g"," ","o","r"," ","i","n","v","a","l","i","d"," ","P","a","t","h"," ","P","a","r","a","m","e","t","e","r",":"," ","i","d">>
        /\ outbound[i] = <<>>

\* What a call may have come to: nothing yet, or one result with a nil
\* error that is a response body read from the one request sent or a text
\* starting with "[Error]".
OneOutcome(i) ==
    /\ Len(outbound[i]) <= 1
    /\ pc[i] = "done" <=> result[i] # <<>>
    /\ pc[i] # "done" => outbound[i] = <<>>
    /\ result[i] # <<>> =>
           /\ Len(result[i]) = 1
           /\ result[i][1].Err = <<>>
           /\ IF result[i][1].IsError
              THEN HasPrefix(result[i][1].Text, <<"[","E","r","r","o","r","]">>)
              ELSE result[i][1].Text \in ResponseBodies /\ Len(outbound[i]) = 1

\* C2: every call that ends returns exactly one result and a nil error, the
\* result being the response body or a text starting with "[Error]"; it has
\* called client.Do at most once; and once it has returned, also after a
\* transport or read failure, it calls nothing again and its result stays.
C2_OneOutcomeNoRetry ==
    [][\A i \in Calls :
           /\ OneOutcome(i)'
           /\ pc[i] = "done" =>
                  /\ pc'[i] = "done"
                  /\ result'[i] = result[i]
                  /\ outbound'[i] = outbound[i]]_vars

\* A call that ended in a transport failure after its one client.Do, and a
\* call that returned the response body.
C2_Witness ==
    /\ \E i \in Calls :
           /\ pc[i] = "done" /\ Len(outbound[i]) = 1
           /\ result[i][1].Text = <<"[","E","r","r","o","r","]"," ","f","a","i","l","e","d"," ","t","o"," ","m","a","k","e"," ","H","T","T","P"," ","r","e","q","u","e","s","t",":"," ","t","r","a","n","s","p","o","r","t"," ","e","r","r","o","r">>
    /\ \E i \in Calls :
           /\ pc[i] = "done" /\ Len(outbound[i]) = 1
           /\ ~result[i][1].IsError

\* The request call i builds when it runs alone: from its own arguments, the
\* configuration, and the context of the HTTP request it arrived in.
RequestAlone(i) ==
    LET created == (CHOOSE outcome \in BuildRequestOutcomes(HandlerOf(i),
                                                            call[i][1].arguments) :
                        outcome.request # <<>>).request[1]
        secured == setRequestSecurity(created, apiCfg.Security, apiCfg.BasicAuth,
                                      apiCfg.ApiKeyAuth, apiCfg.BearerAuth)
        static  == AddStaticHeaders(secured.Header, Split(apiCfg.Headers, <<",">>))
        own     == IF sseMode THEN SSEContext(call[i][1].header) ELSE <<>>
    IN  [secured EXCEPT !.Header =
            IF own = <<>> THEN static
            ELSE SetForwardedHeaders(static, own[1],
                     CHOOSE order \in KeyOrders(DOMAIN own[1]) : TRUE)]

\* C6: in every interleaving of the calls' steps, the request a call hands
\* to client.Do is the one it builds when it runs alone; every header named
\* in the forwarding list carries the value of the call's own inbound
\* request; and no step of a call changes the registered tools, the document
\* or the configuration.
C6_CallsDoNotInteract ==
    [][/\ \A i \in Calls :
              outbound'[i] # outbound[i] =>
                  /\ outbound'[i] = <<RequestAlone(i)>>
                  /\ (sseMode /\ apiCfg.SseHeaders # <<>>) =>
                         \A key \in Range(Split(apiCfg.SseHeaders, <<",">>)) :
                             HeaderGet(outbound'[i][1].Header, key) =
                                 HeaderGet(call[i][1].header, key)
       /\ callVars' # callVars =>
              UNCHANGED <<swaggerSpec, apiCfg, sseMode, tools>>]_vars

\* Two calls of the same tool over SSE with forwarding configured: the
\* second has been sent while the first is still adding its headers, and
\* each request in being carries the trace header of its own inbound
\* request.
C6_Witness ==
    /\ sseMode /\ apiCfg.SseHeaders # <<>>
    /\ pc[1] = "ready" /\ pc[2] = "done"
    /\ call[1][1].tool = call[2][1].tool
    /\ Len(outbound[2]) = 1
    /\ HeaderGet(call[1][1].header, <<"X","-","T","r","a","c","e">>) # HeaderGet(call[2][1].header, <<"X","-","T","r","a","c","e">>)
    /\ HeaderGet(req[1][1].Header, <<"X","-","T","r","a","c","e">>) = HeaderGet(call[1][1].header, <<"X","-","T","r","a","c","e">>)
    /\ HeaderGet(outbound[2][1].Header, <<"X","-","T","r","a","c","e">>)
           = HeaderGet(call[2][1].header, <<"X","-","T","r","a","c","e">>)

\* The header without its Authorization entry.
WithoutAuthorization(header) ==
    [k \in DOMAIN header \ {<<"A","u","t","h","o","r","i","z","a","t","i","o","n">>} |-> header[k]]

\* C8: the step that applies setRequestSecurity changes the request by the
\* branch of the configured mode only.  Mode apiKey sets no Authorization
\* header whatever basic and bearer credentials are configured, and with
\* the credential string query:token=abc123 the query string comes to
\* contain token=abc123 and the headers stay as they were.  Modes basic and
\* bearer set the Authorization header from their own credential and add no
\* other header, query value or cookie.  Any other mode, and a mode whose
\* own credential is empty, leaves the request unchanged.
C8_OnlyTheConfiguredMode ==
    [][\A i \in Calls :
           (pc[i] = "created" /\ pc'[i] = "secured") =>
               LET before == req[i][1]
                   after  == req'[i][1]
                   mode   == TrimSpace(apiCfg.Security)
               IN  /\ mode = <<"a","p","i","K","e","y">> =>
                          /\ <<"A","u","t","h","o","r","i","z","a","t","i","o","n">> \notin DOMAIN after.Header
                          /\ apiCfg.ApiKeyAuth = <<>> => after = before
                          /\ apiCfg.ApiKeyAuth = <<"q","u","e","r","y",":","t","o","k","e","n","=","a","b","c","1","2","3">> =>
                                 /\ Contains(after.URL.RawQuery, <<"t","o","k","e","n","=","a","b","c","1","2","3">>)
                                 /\ after.Header = before.Header
                   /\ mode = <<"b","a","s","i","c">> =>
                          /\ after.URL = before.URL /\ after.Body = before.Body
                          /\ WithoutAuthorization(after.Header) = before.Header
                          /\ apiCfg.BasicAuth = <<>> => after = before
                          /\ apiCfg.BasicAuth = <<"u",":","p">> =>
                                 after.Header[<<"A","u","t","h","o","r","i","z","a","t","i","o","n">>] = <<<<"B","a","s","i","c"," ","d","T","p","w">>>>
                   /\ mode = <<"b","e","a","r","e","r">> =>
                          /\ after.URL = before.URL /\ after.Body = before.Body
                          /\ WithoutAuthorization(after.Header) = before.Header
                          /\ apiCfg.BearerAuth = <<>> => after = before
                          /\ apiCfg.BearerAuth # <<>> =>
                                 after.Header[<<"A","u","t","h","o","r","i","z","a","t","i","o","n">>]
                                     = <<<<"B","e","a","r","e","r"," ">> \o apiCfg.BearerAuth>>
                   /\ mode \notin {<<"a","p","i","K","e","y">>, <<"b","a","s","i","c">>, <<"b","e","a","r","e","r">>} => after = before]_vars

\* Mode apiKey with the credential string query:token=abc123 beside
\* non-empty basic and bearer credentials: the request, after the step, has
\* token=abc123 in its query string and no Authorization header.
C8_Witness ==
    \E i \in Calls :
        /\ pc[i] = "secured"
        /\ TrimSpace(apiCfg.Security) = <<"a","p","i","K","e","y">>
        /\ apiCfg.ApiKeyAuth = <<"q","u","e","r","y",":","t","o","k","e","n","=","a","b","c","1","2","3">>
        /\ apiCfg.BasicAuth # <<>> /\ apiCfg.BearerAuth # <<>>
        /\ Contains(req[i][1].URL.RawQuery, <<"t","o","k","e","n","=","a","b","c","1","2","3">>)
        /\ <<"A","u","t","h","o","r","i","z","a","t","i","o","n">> \notin DOMAIN req[i][1].Header

\* C10: the inputs a tool declares required are exactly the arguments its
\* handler reads, and a finished call that gave every required input as a
\* string that coerces to its type has not failed for a missing parameter.
C10_RequiredIsDemanded ==
    /\ \A t \in 1..Len(tools[1]) :
           tools[1][t].required = Demanded(tools[1][t].handler)
    /\ \A i \in Calls :
           (/\ pc[i] = "done"
            /\ \A name \in ToolOf(i).required :
                   /\ name \in DOMAIN call[i][1].arguments
                   /\ call[i][1].arguments[name].IsString
                   /\ name \in DOMAIN HandlerOf(i).reqBody =>
                          Coerces(HandlerOf(i).reqBody[name],
                                  call[i][1].arguments[name].Value)) =>
               ~HasPrefix(result[i][1].Text, <<"[","E","r","r","o","r","]"," ","m","i","s","s","i","n","g">>)

\* --------------------------------------------------------------------------
\* The order in which the handler puts headers on the request
\* --------------------------------------------------------------------------

\* The values the declared header arguments of call i give the name, in
\* their declared order; the content type set after them replaces its own.
DeclaredValues(i, name) ==
    IF name = <<"C","o","n","t","e","n","t","-","T","y","p","e">> THEN <<<<"a","p","p","l","i","c","a","t","i","o","n","/","j","s","o","n">>>>
    ELSE LET names == SelectSeq(HandlerOf(i).reqHeader,
                                LAMBDA h : CanonicalHeaderKey(h) = name)
         IN  [k \in 1..Len(names) |-> call[i][1].arguments[names[k]].Value]

DeclaredHeader(i) ==
    [name \in {CanonicalHeaderKey(h) : h \in Range(HandlerOf(i).reqHeader)}
                  \cup {<<"C","o","n","t","e","n","t","-","T","y","p","e">>} |-> DeclaredValues(i, name)]

\* The security injection applied to the declared headers.
InjectedHeader(i) ==
    setRequestSecurity([req[i][1] EXCEPT !.Header = DeclaredHeader(i)], apiCfg.Security,
                       apiCfg.BasicAuth, apiCfg.ApiKeyAuth, apiCfg.BearerAuth).Header

\* The values the well-formed pairs of the configured header list give the
\* name, in their configured order.
StaticValues(name) ==
    LET pairs == Split(apiCfg.Headers, <<",">>)
        WellFormed(pair) == /\ Contains(pair, <<"=">>)
                            /\ TrimSpace(SplitN2(pair, <<"=">>)[1]) # <<>>
        named == SelectSeq(pairs, LAMBDA pair :
                     /\ WellFormed(pair)
                     /\ CanonicalHeaderKey(TrimSpace(SplitN2(pair, <<"=">>)[1])) = name)
    IN  [k \in 1..Len(named) |-> TrimSpace(SplitN2(named[k], <<"=">>)[2])]

StaticNames ==
    {CanonicalHeaderKey(TrimSpace(SplitN2(pair, <<"=">>)[1])) :
        pair \in {p \in Range(Split(apiCfg.Headers, <<",">>)) :
                     Contains(p, <<"=">>) /\ TrimSpace(SplitN2(p, <<"=">>)[1]) # <<>>}}

\* The header names of the forwarded-header context of call i.
ForwardedKeys(i) == IF ctx[i] = <<>> THEN {} ELSE DOMAIN ctx[i][1]

\* The header after the four steps in their order: a forwarded name has the
\* forwarded value alone; any other name has what the declared arguments
\* and the injection left, followed by its configured values.
FinalHeader(i) ==
    LET forwardedNames == {CanonicalHeaderKey(key) : key \in ForwardedKeys(i)}
    IN  [name \in DOMAIN InjectedHeader(i) \cup StaticNames \cup forwardedNames |->
            IF name \in forwardedNames
            THEN <<ctx[i][1][CHOOSE key \in ForwardedKeys(i) :
                                 CanonicalHeaderKey(key) = name]>>
            ELSE (IF name \in DOMAIN InjectedHeader(i) THEN InjectedHeader(i)[name]
                  ELSE <<>>) \o StaticValues(name)]

\* C11: the handler puts headers on the request in the order declared
\* header arguments, security injection, configured static headers,
\* forwarded inbound headers: the request holds the declared headers when
\* it is created, those with the injection applied after the security step,
\* and after the last step the configured values appended and the forwarded
\* ones set over them.  In every request handed to client.Do each name of
\* the call's forwarded-header context has the forwarded value as its only
\* value, none set by a declared argument, the injection or the
\* configuration.
C11_ForwardedHeadersLast ==
    \A i \in Calls :
        /\ pc[i] = "created" => req[i][1].Header = DeclaredHeader(i)
        /\ pc[i] = "secured" => req[i][1].Header = InjectedHeader(i)
        /\ pc[i] = "ready" => req[i][1].Header = FinalHeader(i)
        /\ \A k \in 1..Len(outbound[i]) :
               /\ outbound[i][k].Header = FinalHeader(i)
               /\ \A key \in ForwardedKeys(i) :
                      outbound[i][k].Header[CanonicalHeaderKey(key)] = <<ctx[i][1][key]>>

\* A call of the tool with the declared header X-T that arrived with its
\* own X-Trace and X-T headers, under a configuration that forwards X-Trace,
\* X-T and X-Api-Key, injects X-Api-Key and a cookie, and configures X-Trace,
\* X-T and X-Env: the request was sent and answered, its forwarded names
\* hold the inbound values alone (none for the absent X-Api-Key), and the
\* other names hold the injected and the configured values.
C11_Witness ==
    \E i \in Calls :
        /\ pc[i] = "done" /\ Len(outbound[i]) = 1 /\ ~result[i][1].IsError
        /\ HandlerOf(i).reqHeader = <<<<"X","-","T">>>>
        /\ call[i][1].arguments[<<"X","-","T">>].Value = <<"4","2">>
        /\ apiCfg.ApiKeyAuth = <<"h","e","a","d","e","r",":","X","-","A","p","i","-","K","e","y","=","k","1",",","c","o","o","k","i","e",":","s","i","d","=","c","1">>
        /\ apiCfg.Headers = <<"X","-","T","r","a","c","e","=","s","t","a","t","i","c",",","X","-","T","=","f","i","x","e","d",",","X","-","E","n","v","=","p","r","o","d",",","x","-","e","n","v","=","2">>
        /\ ctx[i] = <<(<<"x","-","t","r","a","c","e">> :> <<"t","1">>) @@ (<<"X","-","T">> :> <<"i","n","1">>)
                          @@ (<<"X","-","A","p","i","-","K","e","y">> :> <<>>)>>
        /\ outbound[i][1].Header =
               (<<"X","-","T","r","a","c","e">> :> <<<<"t","1">>>>) @@ (<<"X","-","T">> :> <<<<"i","n","1">>>>)
                   @@ (<<"X","-","A","p","i","-","K","e","y">> :> << <<>> >>) @@ (<<"C","o","o","k","i","e">> :> <<<<"s","i","d","=","c","1">>>>)
                   @@ (<<"X","-","E","n","v">> :> <<<<"p","r","o","d">>, <<"2">>>>)
                   @@ (<<"C","o","n","t","e","n","t","-","T","y","p","e">> :> <<<<"a","p","p","l","i","c","a","t","i","o","n","/","j","s","o","n">>>>)

====
